---- MODULE Spec2Model ----
(***************************************************************************)
(* Model of the event-loop-and-dispatch core of wry-native                 *)
(* (src/wry-native/src/lib.rs, tray.rs): the application controller        *)
(* (WryApp), the closure state of wry_app_run, the proxy channel of        *)
(* UserEvent messages and the exported entry points that feed them.        *)
(*                                                                         *)
(* One action per exported entry point (host side) and one action per     *)
(* event the closure of wry_app_run handles (loop side).  A handler       *)
(* action is the whole closure invocation for that event.                  *)
(*                                                                         *)
(* Environment conventions:                                                *)
(*  - Host callbacks are inputs: each invocation returns / does whatever   *)
(*    the \E of the action picks (allow or deny; close the window handed   *)
(*    to it or leave it alone).                                            *)
(*  - The tao WindowId of a new window is picked by the OS among the ids   *)
(*    of no currently existing OS window (ids may be recycled).            *)
(*  - run_return returns as soon as a handler leaves ControlFlow::Exit;    *)
(*    no handler runs afterwards and later proxy sends fail.               *)
(***************************************************************************)
EXTENDS Integers, Sequences, FiniteSets, TLC

\* ---- bounds -------------------------------------------------------------
MaxWindows == 3     \* wry_window_new calls per run
MaxLoopWindows == 2 \* windows of a run in the termination and dispatch specifications
MaxTrays == 1       \* wry_tray_new calls per run
MaxMsgs == 1        \* host sends (dispatch, tray dispatch, tray remove, exit)
MaxFifoMsgs == 2    \* dispatches of a run in the ordering specification
MaxMenuTrays == 2   \* wry_tray_new calls per run in the menu specifications

Handles == 1..MaxWindows
LoopHandles == 1..MaxLoopWindows
WindowIds == 1..MaxWindows
TrayHandles == 1..MaxTrays
Ctxs == {11, 12}
Codes == {0, 7}
Producers == {1, 2}
Callers == {1, 2}     \* threads that call wry_window_new

\* Option<T>, and a C string argument (a null pointer or a pointer to bytes)
None == <<>>
Some(v) == <<v>>
\* the C strings the hosts of the lifecycle specifications pass
Urls == {Some(<<117>>)}
Titles == {Some(<<116>>)}
Htmls == {Some(<<60>>)}
\* C strings for the conversions: null, "", U+00E9, and two byte strings that
\* are not UTF-8
CStrings == {None, Some(<<>>), Some(<<195, 169>>), Some(<<255>>), Some(<<104, 195>>)}

\* i32 of the geometry utility, scaled to IntBits bits (two's complement)
IntBits == 16
IntMin == -(2 ^ (IntBits - 1))
IntMax == 2 ^ (IntBits - 1) - 1
\* coordinates and sizes the monitor and the window are sampled from
Lefts == {IntMin, 0}
Rights == {IntMin + 1, 1920}
Tops == {IntMin, 0}
Bottoms == {IntMin + 1, 1080}
WinXs == {-50, 1820, 1900}
WinYs == {100, 980}
WinWs == {100, IntMax}
WinHs == {100, IntMax}
\* positions passed to wry_window_set_position
Positions == {<<10, 20>>, <<-5, 0>>}

VARIABLES
  \* WryApp fields (lib.rs 666-683)
  event_loop,                    \* TRUE = Some(EventLoop), FALSE = taken
  windows,                       \* app.windows : handle -> WryWindow
  next_window_id,
  trays,                         \* app.trays : handle -> WryTray
  next_tray_id,
  app_exit_requested_handler,    \* app.exit_requested_handler is Some
  app_window_created_handler,
  app_window_creation_error_handler,
  app_window_destroyed_handler,
  run_started,
  dynamic_window_queue,          \* Vec<WryWindow>
  \* proxy channel of UserEvent
  channel,
  \* closure state of wry_app_run (lib.rs 800-820)
  pending_windows,
  live_windows,                  \* WindowId -> WryWindow
  id_to_window_id,               \* handle -> WindowId
  pending_trays,
  live_trays,                    \* handle -> WryTray
  menu_id_to_tray,               \* menu item id -> tray handle
  exit_requested_handler,
  window_created_handler,
  window_creation_error_handler,
  window_destroyed_handler,
  control_flow,
  \* observation of the run
  last,                          \* what the latest closure invocation did
  returned,                      \* handles returned by wry_window_new, in call order
  tray_returned,                 \* handles returned by wry_tray_new, in call order
  sends,                         \* number of host sends so far
  calling,                       \* per calling thread: the id its wry_window_new call has read, 0 outside a call
  hist                           \* what happened over the whole run

appVars == <<event_loop, windows, next_window_id, trays, next_tray_id,
             app_exit_requested_handler, app_window_created_handler,
             app_window_creation_error_handler, app_window_destroyed_handler,
             run_started, dynamic_window_queue>>
closureVars == <<pending_windows, live_windows, id_to_window_id, pending_trays,
                 live_trays, menu_id_to_tray, exit_requested_handler, window_created_handler,
                 window_creation_error_handler, window_destroyed_handler,
                 control_flow>>
obsVars == <<last, returned, tray_returned, calling, sends, hist>>
vars == <<appVars, channel, closureVars, obsVars>>

\* ---- maps ---------------------------------------------------------------
EmptyMap == [k \in {} |-> 0]
MapInsert(m, k, v) == [x \in DOMAIN m \cup {k} |-> IF x = k THEN v ELSE m[x]]
MapRemove(m, k) == [x \in DOMAIN m \ {k} |-> m[x]]
IsEmpty(m) == DOMAIN m = {}
Perms(S) == {s \in [1..Cardinality(S) -> S] : \A i, j \in 1..Cardinality(S) : s[i] = s[j] => i = j}

\* ---- records ------------------------------------------------------------
NoRel == [kind |-> "none", of |-> 0]

\* WryWindow::new (lib.rs 272-344); 0 stands for None in the id fields; a
\* String is the sequence of its bytes.
\* window: the live OS window + webview are present; built: the relation the
\* OS window was built with by create().
WryWindowNew(id) ==
  [id |-> id, pending_owner_window_id |-> 0, pending_parent_window_id |-> 0,
   pending_title |-> <<>>, pending_url |-> None, pending_html |-> None,
   pending_position |-> None, prevent_overflow |-> FALSE,
   close_handler |-> FALSE, window |-> FALSE, built |-> NoRel]

\* WryTray::new (tray.rs 154-169).  pending_menu: None or Some(the items of
\* the WryTrayMenu); tray: None or Some(the items of the menu the OS tray icon
\* shows, <<>> when it has no menu).
WryTrayNew(id) ==
  [id |-> id, pending_menu |-> None, menu_event_handler |-> FALSE,
   tray |-> None, menu_item_ids |-> <<>>]

NoStep ==
  [ev |-> "none", target |-> 0, closeCb |-> "none", exitCb |-> <<>>,
   createdCb |-> <<>>, errorCb |-> <<>>, destroyedCb |-> <<>>,
   removed |-> {}, trays_before |-> {}, delivery |-> <<>>, clamp |-> <<>>]

\* closed: handles removed by an allowed close request; notified: handles the
\* window-destroyed handler was called with, in call order; late: sends made
\* into a stopped loop; reruns: calls of wry_app_run after the first;
\* calls: handle-keyed configuration calls for a handle not in app.windows
NoHist ==
  [closed |-> {}, notified |-> <<>>, late |-> 0, reruns |-> 0, calls |-> {}]

Stopped == control_flow = "Exit"
Entered == ~event_loop /\ ~run_started /\ ~Stopped
Running == ~event_loop /\ run_started /\ ~Stopped

Init ==
  /\ event_loop = TRUE
  /\ windows = EmptyMap
  /\ next_window_id = 1
  /\ trays = EmptyMap
  /\ next_tray_id = 1
  /\ app_exit_requested_handler = FALSE
  /\ app_window_created_handler = FALSE
  /\ app_window_creation_error_handler = FALSE
  /\ app_window_destroyed_handler = FALSE
  /\ run_started = FALSE
  /\ dynamic_window_queue = <<>>
  /\ channel = <<>>
  /\ pending_windows = <<>>
  /\ live_windows = EmptyMap
  /\ id_to_window_id = EmptyMap
  /\ pending_trays = <<>>
  /\ live_trays = EmptyMap
  /\ menu_id_to_tray = EmptyMap
  /\ exit_requested_handler = FALSE
  /\ window_created_handler = FALSE
  /\ window_creation_error_handler = FALSE
  /\ window_destroyed_handler = FALSE
  /\ control_flow = "Poll"
  /\ last = NoStep
  /\ returned = <<>>
  /\ tray_returned = <<>>
  /\ calling = [c \in Callers |-> 0]
  /\ sends = 0
  /\ hist = NoHist

\* ---- proxy.send_event ---------------------------------------------------
\* variant: the message is queued whether or not the loop still runs
SendEventAlways(ch, m) == Append(ch, m)
\* variant: the message is put in front of the waiting ones
SendEventFront(ch, m) == IF Stopped THEN ch ELSE <<m>> \o ch
\* A send into a stopped loop fails (the caller logs or ignores the error).
SendEvent(ch, m) == IF Stopped THEN ch ELSE Append(ch, m)

Msg(kind, target, cb, ctx, code) ==
  [kind |-> kind, target |-> target, cb |-> cb, ctx |-> ctx, code |-> code]

\* ---- host entry points --------------------------------------------------
\* variant: the counter is not advanced
NextWindowIdStuck(n) == n
NextWindowId(n) == n + 1

\* wry_window_new / wry_window_new_with_owner (lib.rs 1165-1198)
WindowNewWithOwner(owner_window_id) ==
  /\ next_window_id <= MaxWindows
  /\ LET id == next_window_id
         win == IF owner_window_id # 0
                THEN [WryWindowNew(id) EXCEPT !.pending_owner_window_id = owner_window_id,
                                              !.pending_parent_window_id = 0]
                ELSE WryWindowNew(id)
     IN /\ next_window_id' = NextWindowId(next_window_id)
        /\ returned' = Append(returned, id)
        /\ IF ~run_started
           THEN /\ windows' = MapInsert(windows, id, win)
                /\ UNCHANGED <<dynamic_window_queue, channel>>
           ELSE /\ dynamic_window_queue' = Append(dynamic_window_queue, win)
                /\ channel' = SendEvent(channel, Msg("CreateWindow", 0, "none", 0, 0))
                /\ UNCHANGED windows
  /\ UNCHANGED <<last, hist>>
  /\ UNCHANGED <<event_loop, trays, next_tray_id, app_exit_requested_handler,
                 app_window_created_handler, app_window_creation_error_handler,
                 app_window_destroyed_handler, run_started, closureVars,
                 tray_returned, calling, sends>>

\* wry_window_new called from thread c, up to the read of the counter
\* (lib.rs 1177: let id = app.next_window_id)
WindowNewRead(c) ==
  /\ calling[c] = 0
  /\ next_window_id <= MaxLoopWindows
  /\ calling' = [calling EXCEPT ![c] = next_window_id]
  /\ UNCHANGED <<appVars, channel, closureVars, last, returned, tray_returned,
                 sends, hist>>

\* the rest of the call (lib.rs 1178-1197).  app.next_window_id += 1 is not
\* synchronized with the other callers: the value stored is one more than
\* the value read at line 1177 or than the value the counter holds now.
WindowNewFinish(c) ==
  /\ calling[c] # 0
  /\ LET id == calling[c]
         win == WryWindowNew(id)
     IN /\ next_window_id' \in {NextWindowId(id), NextWindowId(next_window_id)}
        /\ returned' = Append(returned, id)
        /\ calling' = [calling EXCEPT ![c] = 0]
        /\ IF ~run_started
           THEN /\ windows' = MapInsert(windows, id, win)
                /\ UNCHANGED <<dynamic_window_queue, channel>>
           ELSE /\ dynamic_window_queue' = Append(dynamic_window_queue, win)
                /\ channel' = SendEvent(channel, Msg("CreateWindow", 0, "none", 0, 0))
                /\ UNCHANGED windows
  /\ UNCHANGED <<last, hist>>
  /\ UNCHANGED <<event_loop, trays, next_tray_id, app_exit_requested_handler,
                 app_window_created_handler, app_window_creation_error_handler,
                 app_window_destroyed_handler, run_started, closureVars,
                 tray_returned, sends>>

\* ---- strings -------------------------------------------------------------
\* std::str::from_utf8 on the bytes of a C string (what CStr::to_str checks)
Continuation(b) == b >= 128 /\ b <= 191
RECURSIVE IsUtf8(_)
IsUtf8(bytes) ==
  IF bytes = <<>> THEN TRUE
  ELSE LET b == Head(bytes)
           n == IF b <= 127 THEN 1
                ELSE IF b >= 194 /\ b <= 223 THEN 2
                ELSE IF b >= 224 /\ b <= 239 THEN 3
                ELSE IF b >= 240 /\ b <= 244 THEN 4
                ELSE 0
       IN /\ n # 0
          /\ Len(bytes) >= n
          /\ \A i \in 2..n : Continuation(bytes[i])
          /\ (b = 224) => bytes[2] >= 160
          /\ (b = 237) => bytes[2] <= 159
          /\ (b = 240) => bytes[2] >= 144
          /\ (b = 244) => bytes[2] <= 143
          /\ IsUtf8(SubSeq(bytes, n + 1, Len(bytes)))

\* variant: bytes that are not UTF-8 are kept
CStrToStringLossy(s) == IF s = None THEN <<>> ELSE s[1]
\* c_str_to_string (lib.rs 745-753)
CStrToString(s) ==
  IF s = None THEN <<>>
  ELSE IF IsUtf8(s[1]) THEN s[1] ELSE <<>>

\* CString::new(..).map(|cs| cs.into_raw()).unwrap_or(null) (lib.rs 2500-2502,
\* 2625-2627, 2632-2634): null when the string holds a zero byte
CStringNew(str) ==
  IF \E i \in DOMAIN str : str[i] = 0 THEN None ELSE Some(str)

\* wry_window_get_title (lib.rs 2489-2503); the title of a live window is the
\* one the record holds
WindowGetTitle(win) == CStringNew(win.pending_title)

\* wry_window_get_url (lib.rs 2618-2637) on a record without webview
WindowGetUrl(win) ==
  IF win.pending_url # None THEN CStringNew(win.pending_url[1]) ELSE None

\* get_pending_window (lib.rs 1208-1219): the record of app.windows, if any
HasPendingWindow(window_id) == window_id \in DOMAIN windows

hostFrame == <<event_loop, next_window_id, trays, next_tray_id, run_started,
               dynamic_window_queue, channel, closureVars, returned,
               tray_returned, calling, sends>>
handlerRegs == <<app_exit_requested_handler, app_window_created_handler,
                 app_window_creation_error_handler, app_window_destroyed_handler>>

\* variant: the parent is kept when an owner is set
WindowSetOwnerWindowKeepsParent(window_id, owner_window_id) ==
  /\ HasPendingWindow(window_id)
  /\ windows' = [windows EXCEPT
        ![window_id].pending_owner_window_id = owner_window_id]
  /\ UNCHANGED <<last, hist>>
  /\ UNCHANGED <<hostFrame, handlerRegs>>

\* wry_window_set_owner_window (lib.rs 1855-1867)
WindowSetOwnerWindow(window_id, owner_window_id) ==
  /\ HasPendingWindow(window_id)
  /\ windows' = [windows EXCEPT
        ![window_id].pending_owner_window_id = owner_window_id,
        ![window_id].pending_parent_window_id =
            IF owner_window_id # 0 THEN 0 ELSE @]
  /\ UNCHANGED <<last, hist>>
  /\ UNCHANGED <<hostFrame, handlerRegs>>

\* wry_window_set_parent_window (lib.rs 1871-1883)
WindowSetParentWindow(window_id, parent_window_id) ==
  /\ HasPendingWindow(window_id)
  /\ windows' = [windows EXCEPT
        ![window_id].pending_parent_window_id = parent_window_id,
        ![window_id].pending_owner_window_id =
            IF parent_window_id # 0 THEN 0 ELSE @]
  /\ UNCHANGED <<last, hist>>
  /\ UNCHANGED <<hostFrame, handlerRegs>>

\* wry_window_set_prevent_overflow (lib.rs 1886-1895)
WindowSetPreventOverflow(window_id, enabled) ==
  /\ IF HasPendingWindow(window_id)
     THEN windows' = [windows EXCEPT ![window_id].prevent_overflow = enabled]
     ELSE UNCHANGED windows
  /\ UNCHANGED <<hostFrame, handlerRegs, last, hist>>

\* wry_window_set_position (lib.rs 1554-1567)
WindowSetPosition(window_id, x, y) ==
  /\ IF HasPendingWindow(window_id)
     THEN windows' = [windows EXCEPT ![window_id].pending_position = Some(<<x, y>>)]
     ELSE UNCHANGED windows
  /\ UNCHANGED <<hostFrame, handlerRegs, last, hist>>

\* wry_window_center (lib.rs 2383-2405): a live window is moved on its
\* monitor and its record is left alone
WindowCenter(window_id) ==
  /\ IF HasPendingWindow(window_id) /\ ~windows[window_id].window
     THEN windows' = [windows EXCEPT ![window_id].pending_position = None]
     ELSE UNCHANGED windows
  /\ UNCHANGED <<hostFrame, handlerRegs, last, hist>>

\* wry_window_on_close (lib.rs 3157-3167)
WindowOnClose(window_id) ==
  /\ HasPendingWindow(window_id)
  /\ windows' = [windows EXCEPT ![window_id].close_handler = TRUE]
  /\ UNCHANGED <<last, hist>>
  /\ UNCHANGED <<hostFrame, handlerRegs>>

\* wry_window_on_close (lib.rs 3157-3167) for a handle get_pending_window
\* does not find: nothing is done
WindowOnCloseLate(window_id) ==
  /\ ~HasPendingWindow(window_id)
  /\ hist' = [hist EXCEPT !.calls = @ \cup {<<window_id, "close">>}]
  /\ UNCHANGED <<hostFrame, handlerRegs, windows, last>>

\* wry_window_set_title (lib.rs 1474-1487); a record of app.windows holds no
\* window yet
WindowSetTitle(window_id, title) ==
  /\ IF HasPendingWindow(window_id)
     THEN /\ windows' = [windows EXCEPT ![window_id].pending_title = CStrToString(title)]
          /\ UNCHANGED hist
     ELSE /\ hist' = [hist EXCEPT !.calls = @ \cup {<<window_id, "title">>}]
          /\ UNCHANGED windows
  /\ UNCHANGED <<hostFrame, handlerRegs, last>>

\* the fields of a record overwritten by the fields given
Overwrite(win, fields) ==
  [k \in DOMAIN win |-> IF k \in DOMAIN fields THEN fields[k] ELSE win[k]]

\* variant: the queued record is not found
WithQueuedWindowMiss(q, window_id, fields) == q
\* with_queued_window (lib.rs 1224-1234); fields is what the closure passed
\* to it assigns
WithQueuedWindow(q, window_id, fields) ==
  [i \in DOMAIN q |->
     IF q[i].id = window_id /\ \A j \in 1..(i - 1) : q[j].id # window_id
     THEN Overwrite(q[i], fields)
     ELSE q[i]]

\* variant: the inline HTML is kept
LoadUrlFieldsKeepHtml(url) == [pending_url |-> Some(CStrToString(url))]
\* what wry_window_load_url assigns to a record (lib.rs 1250-1251, 1255-1256)
LoadUrlFields(url) == [pending_url |-> Some(CStrToString(url)), pending_html |-> None]

\* what wry_window_load_html assigns to a record (lib.rs 1271-1272, 1276-1277)
LoadHtmlFields(html) == [pending_html |-> Some(CStrToString(html)), pending_url |-> None]

\* wry_window_load_url (lib.rs 1242-1259); a record of app.windows holds no
\* webview yet
WindowLoadUrl(window_id, url) ==
  /\ IF HasPendingWindow(window_id)
     THEN /\ windows' = [windows EXCEPT ![window_id] = Overwrite(@, LoadUrlFields(url))]
          /\ UNCHANGED <<dynamic_window_queue, hist>>
     ELSE /\ dynamic_window_queue' =
               WithQueuedWindow(dynamic_window_queue, window_id, LoadUrlFields(url))
          /\ hist' = [hist EXCEPT !.calls = @ \cup {<<window_id, "url">>}]
          /\ UNCHANGED windows
  /\ UNCHANGED <<event_loop, next_window_id, trays, next_tray_id, run_started,
                 channel, closureVars, returned, tray_returned, calling, sends,
                 handlerRegs, last>>

\* wry_window_load_html (lib.rs 1263-1280)
WindowLoadHtml(window_id, html) ==
  /\ IF HasPendingWindow(window_id)
     THEN /\ windows' = [windows EXCEPT ![window_id] = Overwrite(@, LoadHtmlFields(html))]
          /\ UNCHANGED <<dynamic_window_queue, hist>>
     ELSE /\ dynamic_window_queue' =
               WithQueuedWindow(dynamic_window_queue, window_id, LoadHtmlFields(html))
          /\ hist' = [hist EXCEPT !.calls = @ \cup {<<window_id, "html">>}]
          /\ UNCHANGED windows
  /\ UNCHANGED <<event_loop, next_window_id, trays, next_tray_id, run_started,
                 channel, closureVars, returned, tray_returned, calling, sends,
                 handlerRegs, last>>

NextTrayId(n) == n + 1

\* wry_tray_new (tray.rs 406-414)
TrayNewUpTo(max) ==
  /\ next_tray_id <= max
  /\ LET id == next_tray_id
     IN /\ next_tray_id' = NextTrayId(next_tray_id)
        /\ trays' = MapInsert(trays, id, WryTrayNew(id))
        /\ tray_returned' = Append(tray_returned, id)
  /\ UNCHANGED <<last, hist>>
  /\ UNCHANGED <<event_loop, windows, next_window_id, handlerRegs, run_started,
                 dynamic_window_queue, channel, closureVars, returned,
                 sends, calling>>

TrayNew == TrayNewUpTo(MaxTrays)

\* ---- tray menus ----------------------------------------------------------
\* WryTrayMenuItem (tray.rs 43-48) as built by wry_tray_menu_add_item,
\* _add_check_item, _add_separator, _add_submenu (tray.rs 323-387)
MenuItem(id) == [kind |-> "Item", id |-> id, menu |-> <<>>]
CheckItem(id) == [kind |-> "Check", id |-> id, menu |-> <<>>]
Separator == [kind |-> "Separator", id |-> "", menu |-> <<>>]
Submenu(menu) == [kind |-> "Submenu", id |-> "", menu |-> menu]

\* the menus the host builds
MenuA == <<MenuItem("a"), Separator, Submenu(<<CheckItem("b")>>)>>
MenuB == <<Submenu(<<Submenu(<<MenuItem("c")>>)>>), MenuItem("a")>>
MenuC == <<MenuItem("d"), CheckItem("b")>>
Menus == {MenuA, MenuB}
MenuIds == {"a", "b", "c", "d"}

\* variant: submenus are not descended into
RECURSIVE CollectIdsShallow(_)
CollectIdsShallow(items) ==
  IF items = <<>> THEN <<>>
  ELSE LET item == Head(items)
       IN (IF item.kind \in {"Item", "Check"} THEN <<item.id>> ELSE <<>>)
          \o CollectIdsShallow(Tail(items))
\* WryTrayMenu::collect_ids (tray.rs 113-125): the ids of the items and check
\* items, depth first
RECURSIVE CollectIds(_)
CollectIds(items) ==
  IF items = <<>> THEN <<>>
  ELSE LET item == Head(items)
       IN (IF item.kind \in {"Item", "Check"} THEN <<item.id>>
           ELSE IF item.kind = "Submenu" THEN CollectIds(item.menu)
           ELSE <<>>)
          \o CollectIds(Tail(items))

\* WryTrayMenu::build (tray.rs 50-111): the ids of the muda items made with
\* with_id, which are the ids a click on the built menu can carry
RECURSIVE Build(_)
Build(items) ==
  IF items = <<>> THEN {}
  ELSE LET item == Head(items)
       IN (IF item.kind \in {"Item", "Check"} THEN {item.id}
           ELSE IF item.kind = "Submenu" THEN Build(item.menu)
           ELSE {})
          \cup Build(Tail(items))

\* wry_tray_set_menu (tray.rs 503-516); menu = None is the null pointer
TraySetMenu(tray_id, menu) ==
  /\ IF tray_id \in DOMAIN trays
     THEN trays' = [trays EXCEPT ![tray_id].pending_menu = menu]
     ELSE UNCHANGED trays
  /\ UNCHANGED <<last, hist>>
  /\ UNCHANGED <<event_loop, windows, next_window_id, next_tray_id, handlerRegs,
                 run_started, dynamic_window_queue, channel, closureVars,
                 returned, tray_returned, calling, sends>>

\* wry_tray_on_menu_event (tray.rs 581-591)
TrayOnMenuEvent(tray_id) ==
  /\ IF tray_id \in DOMAIN trays
     THEN trays' = [trays EXCEPT ![tray_id].menu_event_handler = TRUE]
     ELSE UNCHANGED trays
  /\ UNCHANGED <<last, hist>>
  /\ UNCHANGED <<event_loop, windows, next_window_id, next_tray_id, handlerRegs,
                 run_started, dynamic_window_queue, channel, closureVars,
                 returned, tray_returned, calling, sends>>

\* WryTray::create (tray.rs 171-205); ok: whether the platform built the icon
TrayCreate(tray, ok) ==
  LET has_menu == tray.pending_menu # None
  IN [tray EXCEPT
        !.menu_item_ids = IF has_menu THEN @ \o CollectIds(tray.pending_menu[1]) ELSE @,
        !.tray = IF ok THEN Some(IF has_menu THEN tray.pending_menu[1] ELSE <<>>)
                 ELSE None]

\* wry_tray_set_menu_direct (tray.rs 691-705); menu = None is the null pointer
TraySetMenuDirect(tray, menu) ==
  IF tray.tray # None
  THEN [tray EXCEPT !.tray = Some(IF menu = None THEN <<>> ELSE menu[1])]
  ELSE tray

\* what a tray dispatch callback does with the tray handed to it: nothing, or
\* wry_tray_set_menu_direct with a new menu or with null
TrayCallback(cb, tray) ==
  IF cb = "set_menu" THEN TraySetMenuDirect(tray, Some(MenuC))
  ELSE IF cb = "clear_menu" THEN TraySetMenuDirect(tray, None)
  ELSE tray

\* wry_app_on_exit_requested, wry_app_on_window_created,
\* wry_app_on_window_creation_error, wry_app_on_window_destroyed
\* (lib.rs 1086-1134).  The host registers before wry_app_run, as documented.
AppOnExitRequested ==
  /\ event_loop
  /\ app_exit_requested_handler' = TRUE
  /\ UNCHANGED <<last, hist>>
  /\ UNCHANGED <<hostFrame, windows, app_window_created_handler,
                 app_window_creation_error_handler, app_window_destroyed_handler>>

AppOnWindowCreated ==
  /\ event_loop
  /\ app_window_created_handler' = TRUE
  /\ UNCHANGED <<last, hist>>
  /\ UNCHANGED <<hostFrame, windows, app_exit_requested_handler,
                 app_window_creation_error_handler, app_window_destroyed_handler>>

AppOnWindowCreationError ==
  /\ event_loop
  /\ app_window_creation_error_handler' = TRUE
  /\ UNCHANGED <<last, hist>>
  /\ UNCHANGED <<hostFrame, windows, app_exit_requested_handler,
                 app_window_created_handler, app_window_destroyed_handler>>

AppOnWindowDestroyed ==
  /\ event_loop
  /\ app_window_destroyed_handler' = TRUE
  /\ UNCHANGED <<last, hist>>
  /\ UNCHANGED <<hostFrame, windows, app_exit_requested_handler,
                 app_window_created_handler, app_window_creation_error_handler>>

\* A host send; the number of sends of a run is bounded.
HostSendUpTo(m, max) ==
  /\ sends < max
  /\ channel' = SendEvent(channel, m)
  /\ sends' = sends + 1
  /\ hist' = IF Stopped THEN [hist EXCEPT !.late = @ + 1] ELSE hist
  /\ UNCHANGED last
  /\ UNCHANGED <<appVars, closureVars, returned, tray_returned, calling>>

HostSend(m) == HostSendUpTo(m, MaxMsgs)

\* wry_app_exit (lib.rs 1141-1145)
AppExit(code) == HostSend(Msg("RequestExit", 0, "none", 0, code))

\* wry_window_dispatch (lib.rs 3270-3285); cb is what the host callback does
\* with the window handed to it: nothing, or wry_window_close.
WindowDispatch(window_id, cb, ctx) ==
  HostSend(Msg("Dispatch", window_id, cb, ctx, 0))

\* wry_tray_dispatch (tray.rs 736-749)
TrayDispatch(tray_id, ctx) ==
  HostSend(Msg("TrayDispatch", tray_id, "noop", ctx, 0))

\* wry_tray_dispatch with a callback that does cb
TrayDispatchCb(tray_id, cb, ctx) ==
  HostSendUpTo(Msg("TrayDispatch", tray_id, cb, ctx, 0), MaxFifoMsgs)

\* the muda MenuEvent handler (tray.rs 281-284): a click on an item of the menu
\* shown by a tray icon is forwarded with the item's id; from notes the tray
\* whose menu was clicked, which the event does not carry
MenuEvent(id, from) == [kind |-> "TrayMenuEvent", id |-> id, from |-> from]
MenuClick(tray_id, id) ==
  /\ tray_id \in DOMAIN live_trays
  /\ live_trays[tray_id].tray # None
  /\ id \in Build(live_trays[tray_id].tray[1])
  /\ HostSendUpTo(MenuEvent(id, tray_id), MaxFifoMsgs)

\* wry_window_dispatch / wry_tray_dispatch called by producer thread p, which
\* passes its identity and the index of the send as the context value
ProducerDispatch(p, window_id) ==
  HostSendUpTo(Msg("Dispatch", window_id, "noop", <<p, sends + 1>>, 0), MaxFifoMsgs)

ProducerTrayDispatch(p, tray_id) ==
  HostSendUpTo(Msg("TrayDispatch", tray_id, "noop", <<p, sends + 1>>, 0), MaxFifoMsgs)

\* wry_tray_remove (tray.rs 754-760)
TrayRemove(tray_id) ==
  HostSend(Msg("TrayRemove", tray_id, "none", 0, 0))

\* wry_app_run up to the call of run_return (lib.rs 789-823): take the event
\* loop, drain app.windows and app.trays (HashMap order is arbitrary), take
\* the handlers.
AppRun ==
  /\ event_loop
  /\ event_loop' = FALSE
  /\ \E order \in Perms(DOMAIN windows) :
        pending_windows' = [i \in DOMAIN order |-> windows[order[i]]]
  /\ \E order \in Perms(DOMAIN trays) :
        pending_trays' = [i \in DOMAIN order |-> trays[order[i]]]
  /\ windows' = EmptyMap
  /\ trays' = EmptyMap
  /\ exit_requested_handler' = app_exit_requested_handler
  /\ window_created_handler' = app_window_created_handler
  /\ window_creation_error_handler' = app_window_creation_error_handler
  /\ window_destroyed_handler' = app_window_destroyed_handler
  /\ app_exit_requested_handler' = FALSE
  /\ app_window_created_handler' = FALSE
  /\ app_window_creation_error_handler' = FALSE
  /\ app_window_destroyed_handler' = FALSE
  /\ UNCHANGED <<last, hist>>
  /\ UNCHANGED <<next_window_id, next_tray_id, run_started, dynamic_window_queue,
                 channel, live_windows, id_to_window_id, live_trays, menu_id_to_tray,
                 control_flow,
                 returned, tray_returned, calling, sends>>

\* variant: the second call drains and takes again
AppRunAgainDrains ==
  /\ ~event_loop
  /\ hist.reruns < MaxMsgs
  /\ hist' = [hist EXCEPT !.reruns = @ + 1]
  /\ \E order \in Perms(DOMAIN windows) :
        pending_windows' = [i \in DOMAIN order |-> windows[order[i]]]
  /\ windows' = EmptyMap
  /\ exit_requested_handler' = app_exit_requested_handler
  /\ window_created_handler' = app_window_created_handler
  /\ UNCHANGED <<event_loop, next_window_id, trays, next_tray_id, handlerRegs,
                 run_started, dynamic_window_queue, channel, live_windows,
                 id_to_window_id, pending_trays, live_trays, menu_id_to_tray,
                 window_creation_error_handler, window_destroyed_handler,
                 control_flow, last, returned, tray_returned, calling, sends>>

\* wry_app_run called again (lib.rs 789-798): app.event_loop.take() is None
\* and the function returns ("already consumed")
AppRunAgain ==
  /\ ~event_loop
  /\ hist.reruns < MaxMsgs
  /\ hist' = [hist EXCEPT !.reruns = @ + 1]
  /\ UNCHANGED <<appVars, channel, closureVars, last, returned, tray_returned, calling,
                 sends>>

\* ---- the closure of run_return: helpers ----------------------------------
LiveHandles(L) == {L[w].id : w \in DOMAIN L}
\* WindowIds of the OS windows that exist (records whose live objects were
\* released by wry_window_close no longer hold one)
OsWindowIds(L) == {w \in DOMAIN L : L[w].window}

\* variant: the records are materialized in drain order
SortByIdSkipped(seq) == seq

\* pending_windows.sort_by_key(|w| w.id) (lib.rs 833)
RECURSIVE InsertById(_, _)
InsertById(w, sorted) ==
  IF sorted = <<>> THEN <<w>>
  ELSE IF w.id < Head(sorted).id THEN <<w>> \o sorted
  ELSE <<Head(sorted)>> \o InsertById(w, Tail(sorted))

RECURSIVE SortById(_)
SortById(seq) ==
  IF seq = <<>> THEN <<>> ELSE InsertById(Head(seq), SortById(Tail(seq)))

\* owner / parent resolution (lib.rs 835-842, 1041-1048): the handle of the
\* live window the reference resolves to, 0 when it does not resolve
ResolveWindow(ref, L, ids) ==
  IF ref # 0 /\ ref \in DOMAIN ids /\ ids[ref] \in DOMAIN L /\ L[ids[ref]].window
  THEN L[ids[ref]].id
  ELSE 0

\* WryWindow::create, Ok path (lib.rs 348-659): owner takes precedence.  built
\* keeps which reference the window was attached through (the owner / parent
\* distinction of the Windows build; macOS and Linux attach either the same way).
Create(win, owner_window, parent_window) ==
  [win EXCEPT !.window = TRUE,
              !.built = IF owner_window # 0 THEN [kind |-> "owner", of |-> owner_window]
                        ELSE IF parent_window # 0 THEN [kind |-> "parent", of |-> parent_window]
                        ELSE NoRel]

\* wry_window_close (lib.rs 2410-2418)
WindowClose(win) == [win EXCEPT !.window = FALSE]

\* The WindowIds the OS may hand to a new window: any id of no existing OS
\* window.  Ids the closure has never seen are interchangeable, so one of them
\* (the smallest) stands for all; ids it still refers to (a stale entry of
\* id_to_window_id, a record whose window was released) are each a choice.
Min(S) == CHOOSE x \in S : \A y \in S : x <= y
NewWindowIds(L, ids) ==
  LET free == WindowIds \ OsWindowIds(L)
      known == DOMAIN L \cup {ids[h] : h \in DOMAIN ids}
      unseen == free \ known
  IN (free \cap known) \cup (IF unseen = {} THEN {} ELSE {Min(unseen)})

\* variant: the callback is fired a second time
CreatedCallTwice(win, L, ids) ==
  IF window_created_handler
  THEN <<[handle |-> win.id, mapped |-> TRUE], [handle |-> win.id, mapped |-> TRUE]>>
  ELSE <<>>
\* the call of the window-created callback (lib.rs 849-853, 1055-1059): the
\* handle it gets and whether, in the maps L and ids it is called under, the
\* handle leads to the window's record
CreatedCall(win, L, ids) ==
  IF window_created_handler
  THEN <<[handle |-> win.id,
          mapped |-> /\ win.id \in DOMAIN ids
                     /\ ids[win.id] \in DOMAIN L
                     /\ L[ids[win.id]].id = win.id]>>
  ELSE <<>>

\* the call of the window-creation-error callback (lib.rs 856-863, 1062-1069)
ErrorCall(win) == IF window_creation_error_handler THEN <<win.id>> ELSE <<>>

\* Materialize one record (lib.rs 835-864 and 1041-1070).  st is the closure
\* state threaded through the loop; oc is what the platform and the
\* window-created callback do with this window: the build fails ("fail"), it
\* succeeds ("ok"), it succeeds and the callback closes the window it is
\* handed ("ok_close"); wid is the WindowId the OS hands out.
MaterializeOne(win, st, oc, wid) ==
  IF oc = "fail"
  THEN [st EXCEPT !.errors = @ \o ErrorCall(win)]
  ELSE LET made == Create(win,
                          ResolveWindow(win.pending_owner_window_id, st.live, st.ids),
                          ResolveWindow(win.pending_parent_window_id, st.live, st.ids))
           ids2 == MapInsert(st.ids, win.id, wid)
           live2 == MapInsert(st.live, wid, made)
           rec == IF oc = "ok_close" THEN WindowClose(made) ELSE made
       IN [st EXCEPT !.ids = ids2,
                     !.live = MapInsert(st.live, wid, rec),
                     !.created = @ \o CreatedCall(win, live2, ids2)]

\* the outcomes the environment can produce for one record
MaterializeChoices(win, st, Ocs) ==
  (IF "fail" \in Ocs THEN {MaterializeOne(win, st, "fail", 0)} ELSE {})
  \cup {MaterializeOne(win, st, oc, wid) :
          oc \in (IF window_created_handler THEN Ocs ELSE Ocs \ {"ok_close"}) \ {"fail"},
          wid \in NewWindowIds(st.live, st.ids)}

\* for mut win in pending_windows.drain(..) (lib.rs 834-865)
RECURSIVE MaterializeAll(_, _, _)
MaterializeAll(seq, st, Ocs) ==
  IF seq = <<>> THEN {st}
  ELSE UNION {MaterializeAll(Tail(seq), st2, Ocs) :
                st2 \in MaterializeChoices(Head(seq), st, Ocs)}

Outcomes == {"fail", "ok", "ok_close"}

\* variant: the answer of the exit-requested callback is ignored
ShouldExitAlways(ret) == TRUE
\* the exit policy (lib.rs 895-899, 917-921, 984-988, 1028-1032); ret is what
\* the host's exit-requested callback returns if it is called
ShouldExit(ret) == IF exit_requested_handler THEN ret ELSE TRUE

ExitCall(has_code, code, ret) ==
  IF exit_requested_handler
  THEN <<[has_code |-> has_code, code |-> code, ret |-> ret]>>
  ELSE <<>>

\* variant: the trays are left in place
ClearTraysSkipped(T) == T
\* live_trays.clear() (lib.rs 901, 923, 990, 1034)
ClearTrays(T) == EmptyMap

\* the zero-windows-remaining check of the three removal paths
\* (lib.rs 894-904, 916-926, 983-993)
CloseExitCheck(L, ret) ==
  IF IsEmpty(L)
  THEN [calls |-> ExitCall(FALSE, 0, ret), exit |-> ShouldExit(ret)]
  ELSE [calls |-> <<>>, exit |-> FALSE]

DestroyedExitCheck(L, ret) ==
  IF IsEmpty(L)
  THEN [calls |-> ExitCall(FALSE, 0, ret), exit |-> ShouldExit(ret)]
  ELSE [calls |-> <<>>, exit |-> FALSE]

\* variant: the dispatch path removes the record without the exit check
DispatchExitCheckSkipped(L, ret) == [calls |-> <<>>, exit |-> FALSE]
DispatchExitCheck(L, ret) ==
  IF IsEmpty(L)
  THEN [calls |-> ExitCall(FALSE, 0, ret), exit |-> ShouldExit(ret)]
  ELSE [calls |-> <<>>, exit |-> FALSE]

\* what every closure invocation does around the match (lib.rs 827-828) and
\* how it ends: st is the step's observation, exit whether it left
\* ControlFlow::Exit
Finish(st, exit) ==
  /\ run_started' = TRUE
  /\ control_flow' = IF exit THEN "Exit" ELSE "Wait"
  /\ last' = st

Step(ev, target) ==
  [NoStep EXCEPT !.ev = ev, !.target = target,
                 !.trays_before = DOMAIN live_trays]

loopFrame == <<event_loop, windows, next_window_id, trays, next_tray_id, handlerRegs,
               exit_requested_handler, window_created_handler,
               window_creation_error_handler, window_destroyed_handler,
               returned, tray_returned, calling, sends>>

\* menu_id_to_tray.insert for the ids of one tray (lib.rs 870-872)
RECURSIVE InsertMenuIds(_, _, _)
InsertMenuIds(table, ids, our_id) ==
  IF ids = <<>> THEN table
  ELSE InsertMenuIds(MapInsert(table, Head(ids), our_id), Tail(ids), our_id)

\* the tray materialization loop (lib.rs 866-874); oks: per tray, whether the
\* platform builds the icon
RECURSIVE MaterializeTrays(_, _, _)
MaterializeTrays(seq, st, oks) ==
  IF seq = <<>> THEN st
  ELSE LET tray == TrayCreate(Head(seq), oks[Head(seq).id])
       IN MaterializeTrays(Tail(seq),
            [live |-> MapInsert(st.live, tray.id, tray),
             menu_ids |-> InsertMenuIds(st.menu_ids, tray.menu_item_ids, tray.id)],
            oks)

\* variant: the Init event ends with the zero-windows check
InitExitsWhenEmpty(L) == IsEmpty(L)
\* whether the Init event leaves ControlFlow::Exit: its handler has no exit
\* check (lib.rs 831-875)
InitExits(L) == FALSE

\* Event::NewEvents(StartCause::Init) (lib.rs 831-875)
\* Ocs: what the platform and the window-created callback may do per window;
\* TrayOks: whether the platform may build a tray icon, fail to, or both
InitEventWith(Ocs, TrayOks) ==
  /\ Entered
  /\ \E st \in MaterializeAll(SortById(pending_windows),
                              [live |-> live_windows, ids |-> id_to_window_id,
                               created |-> <<>>, errors |-> <<>>], Ocs) :
          /\ live_windows' = st.live
          /\ id_to_window_id' = st.ids
          /\ Finish([Step("Init", 0) EXCEPT !.createdCb = st.created,
                                            !.errorCb = st.errors], InitExits(st.live))
  /\ pending_windows' = <<>>
  /\ \E oks \in [{pending_trays[i].id : i \in DOMAIN pending_trays} -> TrayOks] :
       LET st == MaterializeTrays(pending_trays,
                   [live |-> live_trays, menu_ids |-> menu_id_to_tray], oks)
       IN /\ live_trays' = st.live
          /\ menu_id_to_tray' = st.menu_ids
  /\ pending_trays' = <<>>
  /\ UNCHANGED <<loopFrame, dynamic_window_queue, channel, hist>>

InitEvent(Ocs) == InitEventWith(Ocs, {TRUE})

\* variant: the answer of the close callback is ignored
CloseAllowedAlways(win, ret) == TRUE
\* the close policy of a window (lib.rs 885-889); ret is what the host's
\* close callback returns if it is called
CloseAllowed(win, ret) == IF win.close_handler THEN ret ELSE TRUE

\* Event::WindowEvent / WindowEvent::CloseRequested (lib.rs 882-906)
CloseRequested(window_id) ==
  /\ Running
  /\ \E close_ret \in BOOLEAN, exit_ret \in BOOLEAN :
       IF window_id \in DOMAIN live_windows
       THEN LET win == live_windows[window_id]
                allow == CloseAllowed(win, close_ret)
                L == MapRemove(live_windows, window_id)
                chk == CloseExitCheck(L, exit_ret)
                st == [Step("CloseRequested", win.id) EXCEPT
                         !.closeCb = IF win.close_handler
                                     THEN (IF close_ret THEN "allow" ELSE "deny")
                                     ELSE "none"]
            IN IF allow
               THEN /\ id_to_window_id' = MapRemove(id_to_window_id, win.id)
                    /\ live_windows' = L
                    /\ hist' = [hist EXCEPT !.closed = @ \cup {win.id}]
                    /\ live_trays' = IF chk.exit THEN ClearTrays(live_trays) ELSE live_trays
                    /\ Finish([st EXCEPT !.removed = {win.id}, !.exitCb = chk.calls], chk.exit)
               ELSE /\ UNCHANGED <<id_to_window_id, live_windows, live_trays, hist>>
                    /\ Finish(st, FALSE)
       ELSE /\ UNCHANGED <<id_to_window_id, live_windows, live_trays, hist>>
            /\ Finish(Step("CloseRequested", 0), FALSE)
  /\ UNCHANGED <<loopFrame, dynamic_window_queue, channel,
                 pending_windows, pending_trays,
                 menu_id_to_tray>>

\* ---- prevent_overflow ----------------------------------------------------
\* the value of an i32 after a wrapping operation
WrapInt(v) == ((v - IntMin) % (2 ^ IntBits)) + IntMin
Overflows(v) == v < IntMin \/ v > IntMax

\* i32::clamp as called at lib.rs 711-712 (min <= max holds there)
ClampInt(v, min, max) == IF v < min THEN min ELSE IF v > max THEN max ELSE v

\* variant: the far edge is kept strictly inside the bound
MaxPositionStrict(hi, size, lo) ==
  LET d == WrapInt(hi - size - 1) IN IF d >= lo THEN d ELSE lo
\* (right - win_w).max(left), (bottom - win_h).max(top) (lib.rs 709-710)
MaxPosition(hi, size, lo) ==
  LET d == WrapInt(hi - size) IN IF d >= lo THEN d ELSE lo

\* clamp_window_position_to_bounds (lib.rs 699-714).  checks: the build has
\* overflow checks on (a subtraction that overflows panics) or off (it wraps).
ClampWindowPositionToBounds(left, top, right, bottom, win_x, win_y, win_w, win_h, checks) ==
  LET max_x == MaxPosition(right, win_w, left)
      max_y == MaxPosition(bottom, win_h, top)
  IN [panic |-> checks /\ (Overflows(right - win_w) \/ Overflows(bottom - win_h)),
      new_x |-> ClampInt(win_x, left, max_x),
      new_y |-> ClampInt(win_y, top, max_y)]

\* apply_prevent_overflow (lib.rs 716-740) from the bounds it computed out of
\* the monitor and the margin (lib.rs 721-724) and the window's outer
\* position and size: the call of the clamp and whether the window is
\* repositioned
ApplyPreventOverflow(left, top, right, bottom, win_x, win_y, win_w, win_h, checks) ==
  LET out == ClampWindowPositionToBounds(left, top, right, bottom,
                                         win_x, win_y, win_w, win_h, checks)
  IN [left |-> left, top |-> top, right |-> right, bottom |-> bottom,
      win_x |-> win_x, win_y |-> win_y, win_w |-> win_w, win_h |-> win_h,
      panic |-> out.panic, new_x |-> out.new_x, new_y |-> out.new_y,
      reposition |-> ~out.panic /\ (out.new_x # win_x \/ out.new_y # win_y)]

\* Event::WindowEvent / WindowEvent::Moved (lib.rs 882, 943-953); Resized
\* (lib.rs 929-942) makes the same call
Moved(window_id) ==
  /\ Running
  /\ IF window_id \in DOMAIN live_windows
     THEN LET win == live_windows[window_id]
          IN IF win.prevent_overflow /\ win.window
             THEN \E left \in Lefts, top \in Tops, right \in Rights, bottom \in Bottoms,
                     win_x \in WinXs, win_y \in WinYs, win_w \in WinWs, win_h \in WinHs,
                     checks \in BOOLEAN :
                    Finish([Step("Moved", win.id) EXCEPT !.clamp =
                              <<ApplyPreventOverflow(left, top, right, bottom,
                                                     win_x, win_y, win_w, win_h, checks)>>],
                           FALSE)
             ELSE Finish(Step("Moved", win.id), FALSE)
     ELSE Finish(Step("Moved", 0), FALSE)
  /\ UNCHANGED <<loopFrame, dynamic_window_queue, channel, hist, live_windows,
                 id_to_window_id, live_trays, pending_windows, pending_trays,
                 menu_id_to_tray>>

\* variant: the handler is notified after the record was removed
DestroyedCallLate(oid, L) ==
  IF window_destroyed_handler
  THEN <<[handle |-> oid, live |-> FALSE]>>
  ELSE <<>>
\* the call of the window-destroyed handler (lib.rs 911-913): the handle it
\* gets and whether the record is in the live map L when it is called
DestroyedCall(oid, L) ==
  IF window_destroyed_handler
  THEN <<[handle |-> oid, live |-> oid \in LiveHandles(L)]>>
  ELSE <<>>

\* Event::WindowEvent / WindowEvent::Destroyed (lib.rs 882, 907-928)
Destroyed(window_id) ==
  /\ Running
  /\ \E exit_ret \in BOOLEAN :
       IF window_id \in DOMAIN live_windows
       THEN LET oid == live_windows[window_id].id
                notice == DestroyedCall(oid, live_windows)
                L == MapRemove(live_windows, window_id)
                chk == DestroyedExitCheck(L, exit_ret)
            IN /\ id_to_window_id' = MapRemove(id_to_window_id, oid)
               /\ live_windows' = L
               /\ live_trays' = IF chk.exit THEN ClearTrays(live_trays) ELSE live_trays
               /\ hist' = [hist EXCEPT !.notified =
                             @ \o [i \in DOMAIN notice |-> notice[i].handle]]
               /\ Finish([Step("Destroyed", oid) EXCEPT
                            !.destroyedCb = notice,
                            !.removed = {oid}, !.exitCb = chk.calls], chk.exit)
       ELSE /\ UNCHANGED <<id_to_window_id, live_windows, live_trays, hist>>
            /\ Finish(Step("Destroyed", 0), FALSE)
  /\ UNCHANGED <<loopFrame, dynamic_window_queue, channel,
                 pending_windows, pending_trays,
                 menu_id_to_tray>>

\* ---- Event::UserEvent: the head of the proxy channel is handled ----------
HeadIs(kind) == Running /\ channel # <<>> /\ Head(channel).kind = kind

\* the invocations of a dispatched callback: the context values it is called
\* with (lib.rs 970-973, tray.rs 262-265, lib.rs 1015-1017)
DispatchCalls(m, found) == IF found THEN <<m.ctx>> ELSE <<>>
\* variant: the callback is called whether or not the tray is live
TrayDispatchCallsAlways(m, found) == <<m.ctx>>
TrayDispatchCalls(m, found) == IF found THEN <<m.ctx>> ELSE <<>>

\* the observation of a consumed dispatch message: the handle and the context
\* it was sent with, whether its target was found live, the callback
\* invocations
Delivery(m, found, calls) ==
  <<[target |-> m.target, ctx |-> m.ctx, found |-> found, calls |-> calls]>>

\* variant: the released window is not noticed
DispatchDestroyedNever(win) == FALSE
\* "did the callback destroy the window" (lib.rs 976)
DispatchDestroyed(win) == ~win.window

\* UserEvent::Dispatch (lib.rs 964-995)
HandleDispatch ==
  /\ HeadIs("Dispatch")
  /\ LET m == Head(channel)
         our_id == m.target
         found == our_id \in DOMAIN id_to_window_id
                  /\ id_to_window_id[our_id] \in DOMAIN live_windows
         calls == DispatchCalls(m, found)
     IN IF found /\ calls # <<>>
           THEN LET wid == id_to_window_id[our_id]
                    win == IF m.cb = "close" THEN WindowClose(live_windows[wid])
                           ELSE live_windows[wid]
                IN IF DispatchDestroyed(win)
                   THEN \E exit_ret \in BOOLEAN :
                          LET L == MapRemove(live_windows, wid)
                              chk == DispatchExitCheck(L, exit_ret)
                          IN /\ live_windows' = L
                             /\ live_trays' = IF chk.exit THEN ClearTrays(live_trays)
                                              ELSE live_trays
                             /\ Finish([Step("Dispatch", win.id) EXCEPT
                                          !.removed = {win.id}, !.exitCb = chk.calls,
                                          !.delivery = Delivery(m, found, calls)],
                                       chk.exit)
                   ELSE /\ live_windows' = [live_windows EXCEPT ![wid] = win]
                        /\ UNCHANGED live_trays
                        /\ Finish([Step("Dispatch", win.id) EXCEPT
                                     !.delivery = Delivery(m, found, calls)], FALSE)
           ELSE /\ UNCHANGED <<live_windows, live_trays>>
                /\ Finish([Step("Dispatch", 0) EXCEPT
                             !.delivery = Delivery(m, found, calls)], FALSE)
  /\ channel' = Tail(channel)
  /\ UNCHANGED hist
  /\ UNCHANGED <<loopFrame, dynamic_window_queue, id_to_window_id,
                 pending_windows, pending_trays,
                 menu_id_to_tray>>

\* UserEvent::TrayDispatch (lib.rs 1014-1018)
HandleTrayDispatch ==
  /\ HeadIs("TrayDispatch")
  /\ LET m == Head(channel)
         found == m.target \in DOMAIN live_trays
     IN /\ Finish([Step("TrayDispatch", IF found THEN m.target ELSE 0) EXCEPT
                     !.delivery = Delivery(m, found, TrayDispatchCalls(m, found))], FALSE)
        /\ live_trays' = IF found
                         THEN [live_trays EXCEPT ![m.target] = TrayCallback(m.cb, @)]
                         ELSE live_trays
  /\ channel' = Tail(channel)
  /\ UNCHANGED hist
  /\ UNCHANGED <<loopFrame, dynamic_window_queue, live_windows, id_to_window_id,
                 pending_windows, pending_trays,
                 menu_id_to_tray>>

\* WryTray::handle_menu_event (tray.rs 253-259): the ids the menu-event
\* callback of the tray is called with
HandleMenuEvent(tray, menu_id) ==
  IF tray.menu_event_handler THEN <<menu_id>> ELSE <<>>

\* UserEvent::TrayMenuEvent (lib.rs 1005-1012)
HandleTrayMenuEvent ==
  /\ HeadIs("TrayMenuEvent")
  /\ LET menu_id == Head(channel).id
         found == /\ menu_id \in DOMAIN menu_id_to_tray
                  /\ menu_id_to_tray[menu_id] \in DOMAIN live_trays
         our_id == IF found THEN menu_id_to_tray[menu_id] ELSE 0
     IN Finish([Step("TrayMenuEvent", our_id) EXCEPT
                  !.delivery = <<[target |-> our_id, found |-> found, ctx |-> 0,
                                  calls |-> IF found
                                            THEN HandleMenuEvent(live_trays[our_id], menu_id)
                                            ELSE <<>>]>>], FALSE)
  /\ channel' = Tail(channel)
  /\ UNCHANGED hist
  /\ UNCHANGED <<loopFrame, dynamic_window_queue, live_windows, id_to_window_id,
                 live_trays, pending_windows, pending_trays,
                 menu_id_to_tray>>

\* variant: only the trays are looked at
TrayRemoveExitsOnTrays(L, T) == IsEmpty(T)
\* the exit condition of a tray removal (lib.rs 1022)
TrayRemoveExits(L, T) == IsEmpty(L) /\ IsEmpty(T)

\* UserEvent::TrayRemove (lib.rs 1020-1025)
HandleTrayRemove ==
  /\ HeadIs("TrayRemove")
  /\ LET m == Head(channel)
         T == MapRemove(live_trays, m.target)
     IN /\ live_trays' = T
        /\ Finish(Step("TrayRemove", m.target), TrayRemoveExits(live_windows, T))
  /\ channel' = Tail(channel)
  /\ UNCHANGED hist
  /\ UNCHANGED <<loopFrame, dynamic_window_queue, live_windows, id_to_window_id,
                 pending_windows, pending_trays,
                 menu_id_to_tray>>

\* variant: the callback is called as on the zero-windows paths
RequestExitCallAsUser(code, ret) == ExitCall(FALSE, 0, ret)
\* the arguments the exit-requested callback gets for a RequestExit message
\* (lib.rs 1029)
RequestExitCall(code, ret) == ExitCall(TRUE, code, ret)

\* UserEvent::RequestExit (lib.rs 1027-1037)
HandleRequestExit ==
  /\ HeadIs("RequestExit")
  /\ \E exit_ret \in BOOLEAN :
       LET m == Head(channel)
           should_exit == ShouldExit(exit_ret)
       IN /\ live_trays' = IF should_exit THEN ClearTrays(live_trays) ELSE live_trays
          /\ Finish([Step("RequestExit", 0) EXCEPT
                       !.exitCb = RequestExitCall(m.code, exit_ret)], should_exit)
  /\ channel' = Tail(channel)
  /\ UNCHANGED hist
  /\ UNCHANGED <<loopFrame, dynamic_window_queue, live_windows, id_to_window_id,
                 pending_windows, pending_trays,
                 menu_id_to_tray>>

\* variant: the record is left in the queue
QueuePopKeeps(q) == [win |-> q[Len(q)], rest |-> q]
\* dynamic_window_queue ... q.pop() (lib.rs 1040): the last element of the Vec
QueuePop(q) == [win |-> q[Len(q)], rest |-> SubSeq(q, 1, Len(q) - 1)]

\* UserEvent::CreateWindow (lib.rs 1039-1072)
HandleCreateWindow(Ocs) ==
  /\ HeadIs("CreateWindow")
  /\ IF dynamic_window_queue = <<>>
     THEN /\ UNCHANGED <<dynamic_window_queue, live_windows, id_to_window_id>>
          /\ Finish(Step("CreateWindow", 0), FALSE)
     ELSE LET p == QueuePop(dynamic_window_queue)
          IN \E st \in MaterializeChoices(p.win,
                                          [live |-> live_windows, ids |-> id_to_window_id,
                                           created |-> <<>>, errors |-> <<>>], Ocs) :
               /\ dynamic_window_queue' = p.rest
               /\ live_windows' = st.live
               /\ id_to_window_id' = st.ids
               /\ Finish([Step("CreateWindow", p.win.id) EXCEPT
                            !.createdCb = st.created, !.errorCb = st.errors], FALSE)
  /\ channel' = Tail(channel)
  /\ UNCHANGED hist
  /\ UNCHANGED <<loopFrame, live_trays, pending_windows, pending_trays,
                 menu_id_to_tray>>

\* ---- specifications ------------------------------------------------------
\* Messages sent before wry_app_run wait in the channel until the Init event
\* has been handled, exactly like messages sent right after the call, so the
\* hosts below send once wry_app_run has been called.
CanSend == ~event_loop /\ ~Stopped

\* Termination protocol: windows and trays configured before wry_app_run,
\* close and exit policies, and every path that can stop the loop.
Next ==
  \/ event_loop /\ next_window_id <= MaxLoopWindows /\ WindowNewWithOwner(0)
  \/ \E h \in Handles : WindowOnClose(h)
  \/ event_loop /\ TrayNew
  \/ AppOnExitRequested
  \/ CanSend /\ \E c \in Codes : AppExit(c)
  \/ CanSend /\ \E h \in LoopHandles, cb \in {"noop", "close"} : WindowDispatch(h, cb, 11)
  \/ CanSend /\ \E t \in TrayHandles : TrayRemove(t)
  \/ AppRun
  \/ InitEvent({"ok"})
  \/ \E w \in WindowIds : CloseRequested(w)
  \/ \E w \in WindowIds : Destroyed(w)
  \/ HandleDispatch
  \/ HandleTrayRemove
  \/ HandleRequestExit

Spec == Init /\ [][Next]_vars

\* Dispatch delivery: window and tray dispatches with their context values,
\* against windows that close and trays that are removed.
NextDispatch ==
  \/ event_loop /\ next_window_id <= MaxLoopWindows /\ WindowNewWithOwner(0)
  \/ event_loop /\ TrayNew
  \/ CanSend /\ \E h \in LoopHandles, cb \in {"noop", "close"}, c \in Ctxs : WindowDispatch(h, cb, c)
  \/ CanSend /\ \E t \in TrayHandles, c \in Ctxs : TrayDispatch(t, c)
  \/ CanSend /\ \E t \in TrayHandles : TrayRemove(t)
  \/ AppRun
  \/ InitEvent({"ok"})
  \/ \E w \in WindowIds : CloseRequested(w)
  \/ HandleDispatch
  \/ HandleTrayDispatch
  \/ HandleTrayRemove

SpecDispatch == Init /\ [][NextDispatch]_vars

\* Creation and materialization: windows created before and after the loop
\* started, with owner and parent relations to earlier windows (the
\* documented precondition of the setters), creations that fail,
\* window-created callbacks that close the window, windows closed in between.
NextCreate ==
  \/ ~Stopped /\ \E o \in {0} \cup Handles : o < next_window_id /\ WindowNewWithOwner(o)
  \/ \E h \in Handles, o \in {0} \cup Handles : o < h /\ WindowSetOwnerWindow(h, o)
  \/ \E h \in Handles, o \in {0} \cup Handles : o < h /\ WindowSetParentWindow(h, o)
  \/ AppOnWindowCreated
  \/ AppRun
  \/ InitEvent(Outcomes)
  \/ \E w \in WindowIds : CloseRequested(w)
  \/ HandleCreateWindow(Outcomes)

SpecCreate == Init /\ [][NextCreate]_vars

\* Handle allocation: windows and trays created at any time, windows
\* materialized and closed in between.
NextHandles ==
  \/ ~Stopped /\ WindowNewWithOwner(0)
  \/ ~Stopped /\ TrayNew
  \/ AppRun
  \/ InitEvent({"ok", "fail"})
  \/ \E w \in WindowIds : CloseRequested(w)
  \/ HandleCreateWindow({"ok", "fail"})

SpecHandles == Init /\ [][NextHandles]_vars

\* OS-initiated destruction: Destroyed events against windows with and
\* without close handlers, next to close requests and dispatched closes.
NextDestroyed ==
  \/ event_loop /\ next_window_id <= MaxLoopWindows /\ WindowNewWithOwner(0)
  \/ \E h \in LoopHandles : WindowOnClose(h)
  \/ AppOnExitRequested
  \/ AppOnWindowDestroyed
  \/ CanSend /\ \E h \in LoopHandles : WindowDispatch(h, "close", 11)
  \/ AppRun
  \/ InitEvent({"ok"})
  \/ \E w \in WindowIds : CloseRequested(w)
  \/ \E w \in WindowIds : Destroyed(w)
  \/ HandleDispatch

SpecDestroyed == Init /\ [][NextDestroyed]_vars

\* Sends at any time after wry_app_run was called, also after the loop has
\* stopped.
NextStopped ==
  \/ event_loop /\ next_window_id <= MaxLoopWindows /\ WindowNewWithOwner(0)
  \/ event_loop /\ TrayNew
  \/ AppOnExitRequested
  \/ ~event_loop /\ \E c \in Codes : AppExit(c)
  \/ ~event_loop /\ \E h \in LoopHandles : WindowDispatch(h, "noop", 11)
  \/ ~event_loop /\ \E t \in TrayHandles : TrayDispatch(t, 11)
  \/ ~event_loop /\ \E t \in TrayHandles : TrayRemove(t)
  \/ AppRun
  \/ InitEvent({"ok"})
  \/ \E w \in WindowIds : CloseRequested(w)
  \/ HandleDispatch
  \/ HandleTrayDispatch
  \/ HandleTrayRemove
  \/ HandleRequestExit

SpecStopped == Init /\ [][NextStopped]_vars

\* wry_app_run called more than once, with windows and handlers set up
\* before and after the first call.
NextRerun ==
  \/ ~Stopped /\ next_window_id <= MaxLoopWindows /\ WindowNewWithOwner(0)
  \/ event_loop /\ TrayNew
  \/ AppOnExitRequested
  \/ AppRun
  \/ AppRunAgain
  \/ InitEvent({"ok"})
  \/ \E w \in WindowIds : CloseRequested(w)
  \/ HandleCreateWindow({"ok"})

SpecRerun == Init /\ [][NextRerun]_vars

\* Ordering: producer threads dispatch to windows and trays while the loop
\* handles their messages and close requests.
NextFifo ==
  \/ event_loop /\ next_window_id <= MaxLoopWindows /\ WindowNewWithOwner(0)
  \/ event_loop /\ TrayNew
  \/ CanSend /\ \E p \in Producers, h \in LoopHandles : ProducerDispatch(p, h)
  \/ CanSend /\ \E p \in Producers, t \in TrayHandles : ProducerTrayDispatch(p, t)
  \/ AppRun
  \/ InitEvent({"ok"})
  \/ \E w \in WindowIds : CloseRequested(w)
  \/ HandleDispatch
  \/ HandleTrayDispatch

SpecFifo == Init /\ [][NextFifo]_vars

\* Creation notifications: windows created before and after the loop
\* started, creations that fail, with and without the window-created and
\* window-creation-error callbacks.
NextNotify ==
  \/ ~Stopped /\ WindowNewWithOwner(0)
  \/ AppOnWindowCreated
  \/ AppOnWindowCreationError
  \/ AppRun
  \/ InitEvent(Outcomes)
  \/ \E w \in WindowIds : CloseRequested(w)
  \/ HandleCreateWindow(Outcomes)

SpecNotify == Init /\ [][NextNotify]_vars

\* Configuring windows created after the loop started: another thread
\* creates windows and issues handle-keyed calls for the handles it got while
\* the loop thread handles the CreateWindow messages.
NextQueue ==
  \/ run_started /\ ~Stopped /\ next_window_id <= MaxLoopWindows /\ WindowNewWithOwner(0)
  \/ \E h \in Handles, u \in Urls : h < next_window_id /\ WindowLoadUrl(h, u)
  \/ \E h \in Handles, t \in Titles : h < next_window_id /\ WindowSetTitle(h, t)
  \/ \E h \in Handles : h < next_window_id /\ WindowOnCloseLate(h)
  \/ AppRun
  \/ InitEvent({"ok"})
  \/ \E w \in WindowIds : CloseRequested(w)
  \/ HandleCreateWindow({"ok", "fail"})

SpecQueue == Init /\ [][NextQueue]_vars

\* Configuring windows by handle before and after they went live: windows
\* created before wry_app_run, handle-keyed calls before the call of
\* wry_app_run and after the initial materialization.
NextLive ==
  \/ event_loop /\ next_window_id <= MaxLoopWindows /\ WindowNewWithOwner(0)
  \/ \E h \in Handles, t \in Titles :
       (event_loop \/ run_started) /\ h < next_window_id /\ WindowSetTitle(h, t)
  \/ \E h \in Handles, u \in Urls :
       (event_loop \/ run_started) /\ h < next_window_id /\ WindowLoadUrl(h, u)
  \/ AppRun
  \/ InitEvent({"ok"})
  \/ \E w \in WindowIds : CloseRequested(w)

SpecLive == Init /\ [][NextLive]_vars

\* Trays created before and after wry_app_run, dispatched to and removed.
NextTrays ==
  \/ event_loop /\ next_window_id <= MaxLoopWindows /\ WindowNewWithOwner(0)
  \/ ~Stopped /\ TrayNew
  \/ CanSend /\ \E t \in TrayHandles : TrayDispatch(t, 11)
  \/ CanSend /\ \E t \in TrayHandles : TrayRemove(t)
  \/ AppRun
  \/ InitEvent({"ok"})
  \/ \E w \in WindowIds : CloseRequested(w)
  \/ HandleTrayDispatch
  \/ HandleTrayRemove

SpecTrays == Init /\ [][NextTrays]_vars

\* Page content: wry_window_load_url and wry_window_load_html on windows
\* created before and after the loop started.
NextContent ==
  \/ ~Stopped /\ next_window_id <= MaxLoopWindows /\ WindowNewWithOwner(0)
  \/ \E h \in Handles, u \in Urls : h < next_window_id /\ WindowLoadUrl(h, u)
  \/ \E h \in Handles, x \in Htmls : h < next_window_id /\ WindowLoadHtml(h, x)
  \/ AppRun
  \/ InitEvent({"ok"})
  \/ \E w \in WindowIds : CloseRequested(w)
  \/ HandleCreateWindow({"ok"})

SpecContent == Init /\ [][NextContent]_vars

\* Keeping a window within its monitor: one window, with or without
\* prevent_overflow, moved and resized by the user.
NextClamp ==
  \/ event_loop /\ windows = EmptyMap /\ WindowNewWithOwner(0)
  \/ \E h \in Handles, e \in BOOLEAN : h < next_window_id /\ WindowSetPreventOverflow(h, e)
  \/ AppRun
  \/ InitEvent({"ok"})
  \/ \E w \in WindowIds : Moved(w)
  \/ \E w \in WindowIds : CloseRequested(w)

SpecClamp == Init /\ [][NextClamp]_vars

\* Strings across the boundary: titles and URLs set from C strings of every
\* kind on the not yet materialized records of windows created before and
\* after the loop started.
NextStrings ==
  \/ ~Stopped /\ next_window_id <= MaxLoopWindows /\ WindowNewWithOwner(0)
  \/ \E h \in Handles, t \in CStrings : HasPendingWindow(h) /\ WindowSetTitle(h, t)
  \/ \E h \in Handles, u \in CStrings :
       /\ HasPendingWindow(h) \/ \E i \in DOMAIN dynamic_window_queue :
                                    dynamic_window_queue[i].id = h
       /\ WindowLoadUrl(h, u)
  \/ AppRun
  \/ InitEvent({"ok"})
  \/ HandleCreateWindow({"ok"})

SpecStrings == Init /\ [][NextStrings]_vars

\* Calls with handles of every kind: windows created before and after the
\* loop started, dispatched closes, and a setter call, window dispatches and
\* tray dispatches for handles that were never returned or whose window is
\* gone.
NextInvalid ==
  \/ ~Stopped /\ next_window_id <= MaxLoopWindows /\ WindowNewWithOwner(0)
  \/ event_loop /\ TrayNew
  \/ AppOnExitRequested
  \/ \E h \in Handles, u \in Urls :
       run_started /\ ~HasPendingWindow(h) /\ hist.calls = {} /\ WindowLoadUrl(h, u)
  \/ CanSend /\ \E h \in Handles, cb \in {"noop", "close"} :
       HostSendUpTo(Msg("Dispatch", h, cb, 11, 0), MaxFifoMsgs)
  \/ CanSend /\ \E t \in TrayHandles \cup {MaxTrays + 1} :
       HostSendUpTo(Msg("TrayDispatch", t, "noop", 11, 0), MaxFifoMsgs)
  \/ AppRun
  \/ InitEvent({"ok"})
  \/ HandleDispatch
  \/ HandleTrayDispatch
  \/ HandleCreateWindow({"ok"})

SpecInvalid == Init /\ [][NextInvalid]_vars

\* Releasing the live objects: windows whose window-created callback or
\* dispatched callback calls wry_window_close, next to close requests and
\* Destroyed events, with dispatches to them.
NextRelease ==
  \/ event_loop /\ next_window_id <= MaxLoopWindows /\ WindowNewWithOwner(0)
  \/ AppOnWindowCreated
  \/ CanSend /\ \E h \in LoopHandles, cb \in {"noop", "close"} : WindowDispatch(h, cb, 11)
  \/ AppRun
  \/ InitEvent({"ok", "ok_close"})
  \/ \E w \in WindowIds : CloseRequested(w)
  \/ \E w \in WindowIds : Destroyed(w)
  \/ HandleDispatch

SpecRelease == Init /\ [][NextRelease]_vars

\* Trays with menus and menu-event handlers, clicks on the items of their
\* menus, and tray removals.
NextMenu ==
  \/ event_loop /\ TrayNewUpTo(MaxMenuTrays)
  \/ event_loop /\ \E t \in DOMAIN trays, menu \in Menus :
        trays[t].pending_menu = None /\ TraySetMenu(t, Some(menu))
  \/ event_loop /\ \E t \in DOMAIN trays :
        ~trays[t].menu_event_handler /\ TrayOnMenuEvent(t)
  \/ AppRun
  \/ InitEvent({"ok"})
  \/ CanSend /\ \E t \in DOMAIN live_trays, id \in MenuIds : MenuClick(t, id)
  \/ CanSend /\ \E t \in DOMAIN live_trays :
        HostSendUpTo(Msg("TrayRemove", t, "none", 0, 0), MaxFifoMsgs)
  \/ HandleTrayMenuEvent
  \/ HandleTrayRemove

SpecMenu == Init /\ [][NextMenu]_vars

\* Trays whose menu is replaced at run time from a tray dispatch callback,
\* with clicks on the items of the menus they show.
NextMenuDirect ==
  \/ event_loop /\ TrayNewUpTo(MaxMenuTrays)
  \/ event_loop /\ \E t \in DOMAIN trays, menu \in Menus :
        trays[t].pending_menu = None /\ TraySetMenu(t, Some(menu))
  \/ event_loop /\ \E t \in DOMAIN trays :
        ~trays[t].menu_event_handler /\ TrayOnMenuEvent(t)
  \/ AppRun
  \/ InitEventWith({"ok"}, BOOLEAN)
  \/ CanSend /\ \E t \in DOMAIN live_trays, cb \in {"set_menu", "clear_menu"} :
        TrayDispatchCb(t, cb, 11)
  \/ CanSend /\ \E t \in DOMAIN live_trays, id \in MenuIds : MenuClick(t, id)
  \/ HandleTrayDispatch
  \/ HandleTrayMenuEvent

SpecMenuDirect == Init /\ [][NextMenuDirect]_vars

\* Window positions: wry_window_set_position and wry_window_center on windows
\* created before the loop started.
NextCenter ==
  \/ event_loop /\ WindowNewWithOwner(0)
  \/ \E h \in Handles, p \in Positions : WindowSetPosition(h, p[1], p[2])
  \/ \E h \in Handles : WindowCenter(h)
  \/ AppRun
  \/ InitEvent({"ok"})

SpecCenter == Init /\ [][NextCenter]_vars

\* wry_window_new called from two threads at once, before and while the loop
\* runs.
NextConcurrent ==
  \/ ~Stopped /\ \E c \in Callers : WindowNewRead(c)
  \/ ~Stopped /\ \E c \in Callers : WindowNewFinish(c)
  \/ AppRun
  \/ InitEvent({"ok"})
  \/ HandleCreateWindow({"ok"})

SpecConcurrent == Init /\ [][NextConcurrent]_vars

\* Windows created while the loop runs, some owned by earlier ones, and their
\* materialization by CreateWindow messages.
NextOrder ==
  \/ ~Stopped /\ \E o \in {0} \cup Handles : o < next_window_id /\ WindowNewWithOwner(o)
  \/ AppRun
  \/ InitEvent({"ok"})
  \/ HandleCreateWindow({"ok"})

SpecOrder == Init /\ [][NextOrder]_vars

\* Windows created at any time relative to wry_app_run, with a loop that
\* keeps running: wry_app_run goes on to run_return, tao delivers the Init
\* event and every message sent through the proxy.
NextLost ==
  \/ ~Stopped /\ WindowNewWithOwner(0)
  \/ AppOnWindowCreationError
  \/ AppRun
  \/ InitEvent({"ok", "fail"})
  \/ HandleCreateWindow({"ok", "fail"})

SpecLost ==
  /\ Init /\ [][NextLost]_vars
  /\ WF_vars(AppRun)
  /\ WF_vars(InitEvent({"ok", "fail"}))
  /\ WF_vars(HandleCreateWindow({"ok", "fail"}))

\* A loop that starts with no live window: none configured or every creation
\* failing, with trays, exit requests, tray removals and windows created and
\* closed later.
NextIdle ==
  \/ ~Stopped /\ next_window_id <= MaxLoopWindows /\ WindowNewWithOwner(0)
  \/ event_loop /\ TrayNew
  \/ AppOnExitRequested
  \/ CanSend /\ AppExit(0)
  \/ CanSend /\ \E t \in TrayHandles : TrayRemove(t)
  \/ AppRun
  \/ InitEvent({"ok", "fail"})
  \/ \E w \in WindowIds : CloseRequested(w)
  \/ HandleTrayRemove
  \/ HandleRequestExit
  \/ HandleCreateWindow({"ok", "fail"})

SpecIdle == Init /\ [][NextIdle]_vars

\* ---- properties ---------------------------------------------------------
\* A closure invocation that consumed the head of the proxy channel.
Consumed == Len(channel') < Len(channel)
Range(seq) == {seq[i] : i \in DOMAIN seq}

\* C1: the step that removes the last live window (an allowed CloseRequested,
\* a Destroyed event, a dispatched callback that closed the window) invokes
\* the exit-requested handler exactly once when one is registered, and leaves
\* ControlFlow::Exit in that same step exactly when the exit policy allows
\* (no handler, or the handler returned allow); once the loop was signalled to
\* stop, no handler runs again, so it stops once per run.
C1_LastWindowStopsOnce ==
  [][ /\ (~IsEmpty(live_windows) /\ IsEmpty(live_windows')) =>
           /\ last'.ev \in {"CloseRequested", "Destroyed", "Dispatch"}
           /\ last'.removed # {}
           /\ Len(last'.exitCb) = (IF exit_requested_handler THEN 1 ELSE 0)
           /\ (control_flow' = "Exit") <=>
                (exit_requested_handler => last'.exitCb[1].ret)
      /\ Stopped => UNCHANGED <<closureVars, last, channel>> ]_vars

C1_Witness ==
  /\ Stopped
  /\ last.ev = "Destroyed"
  /\ last.removed # {}
  /\ Len(last.exitCb) = 1
  /\ IsEmpty(live_windows)

\* C2 as stated: whenever the loop has been signalled to stop, by any
\* handler, no live window remains.
C2_StopImpliesNoWindows == Stopped => IsEmpty(live_windows)

\* C2 amended: whenever the loop has been signalled to stop by a handler other
\* than RequestExit (a close, a destroy, a dispatched close, a tray removal),
\* no live window remains; an allowed RequestExit stops the loop with whatever
\* windows are live.
C2_StopImpliesNoWindowsUnlessRequested ==
  (Stopped /\ last.ev # "RequestExit") => IsEmpty(live_windows)

C2_Witness ==
  /\ Stopped
  /\ last.ev = "TrayRemove"
  /\ last.trays_before # {}
  /\ IsEmpty(live_windows)

\* C3 as stated: on every path that signals the loop to stop, a registered
\* exit-requested handler was invoked in that step and returned allow (so a
\* handler that always denies keeps the loop running).
C3_StopOnlyIfHandlerAllowed ==
  (Stopped /\ exit_requested_handler) =>
     /\ Len(last.exitCb) = 1
     /\ last.exitCb[1].ret

\* C4 as stated: the callback of every consumed window-dispatch or
\* tray-dispatch message whose target handle was returned by a create call
\* ran exactly once, with the context value of the send.
C4_DeliveredExactlyOnce ==
  (/\ last.ev \in {"Dispatch", "TrayDispatch"}
   /\ last.delivery[1].target \in
        (IF last.ev = "Dispatch" THEN Range(returned) ELSE Range(tray_returned))) =>
     last.delivery[1].calls = <<last.delivery[1].ctx>>

\* The handles of the windows of the live map that still hold their OS window.
OpenHandles == {live_windows[w].id : w \in OsWindowIds(live_windows)}

\* C5 as stated: after the Init event, every initially-pending window h2 that
\* names a lower handle h1 as owner (parent), where h1's creation succeeded,
\* was built with h1 as owner (parent).
C5_OwnerBuiltIfCreated ==
  last.ev = "Init" =>
    \A w \in DOMAIN live_windows :
      LET h2 == live_windows[w] IN
        /\ (h2.pending_owner_window_id \in DOMAIN id_to_window_id
              /\ h2.pending_owner_window_id < h2.id) =>
             h2.built = [kind |-> "owner", of |-> h2.pending_owner_window_id]
        /\ (h2.pending_parent_window_id \in DOMAIN id_to_window_id
              /\ h2.pending_parent_window_id < h2.id) =>
             h2.built = [kind |-> "parent", of |-> h2.pending_parent_window_id]

\* C5 amended: after the Init event, every initially-pending window h2 that
\* names a lower handle h1 as owner (parent), where h1's creation succeeded
\* and h1's window-created callback did not close h1, was built with h1 as
\* owner (parent).
C5_OwnerBuiltIfOpen ==
  last.ev = "Init" =>
    \A w \in DOMAIN live_windows :
      LET h2 == live_windows[w] IN
        /\ (h2.pending_owner_window_id \in OpenHandles
              /\ h2.pending_owner_window_id < h2.id) =>
             h2.built = [kind |-> "owner", of |-> h2.pending_owner_window_id]
        /\ (h2.pending_parent_window_id \in OpenHandles
              /\ h2.pending_parent_window_id < h2.id) =>
             h2.built = [kind |-> "parent", of |-> h2.pending_parent_window_id]

C5_Witness ==
  /\ last.ev = "Init"
  /\ \E w1, w2 \in DOMAIN live_windows :
       /\ live_windows[w2].pending_owner_window_id = live_windows[w1].id
       /\ live_windows[w1].id < live_windows[w2].id
       /\ live_windows[w1].window
       /\ live_windows[w2].built = [kind |-> "owner", of |-> live_windows[w1].id]

C7_CloseVeto ==
  [][ /\ (last'.ev = "CloseRequested" /\ last'.closeCb = "deny") =>
           /\ UNCHANGED <<live_windows, id_to_window_id, live_trays, control_flow>>
           /\ last'.target \in LiveHandles(live_windows')
           /\ last'.exitCb = <<>>
      /\ (last'.ev = "CloseRequested" /\ last'.target # 0 /\ last'.closeCb = "none") =>
           /\ last'.removed = {last'.target}
           /\ last'.target \notin LiveHandles(live_windows') ]_vars

C7_Witness ==
  /\ last.ev = "CloseRequested"
  /\ last.closeCb = "deny"
  /\ last.target \in LiveHandles(live_windows)
  /\ ~IsEmpty(live_trays)
  /\ control_flow = "Wait"

\* C8: whenever the loop has been signalled to stop, on whichever path, no
\* live tray remains.
C8_StopImpliesNoTrays == Stopped => IsEmpty(live_trays)

C8_Witness ==
  /\ Stopped
  /\ last.ev \in {"CloseRequested", "Destroyed", "Dispatch", "RequestExit"}
  /\ last.trays_before # {}

\* C9: the exit-requested handler is called with is-programmatic = true and
\* the code of the wry_app_exit call exactly when a RequestExit message is
\* processed; on the zero-windows paths (close, destroyed, dispatched close)
\* it is called with is-programmatic = false and code 0.
C9_ExitHandlerArguments ==
  [][ /\ (last'.ev = "RequestExit" /\ Consumed) =>
           /\ Head(channel).kind = "RequestExit"
           /\ \A i \in DOMAIN last'.exitCb :
                /\ last'.exitCb[i].has_code
                /\ last'.exitCb[i].code = Head(channel).code
      /\ last'.ev # "RequestExit" =>
           \A i \in DOMAIN last'.exitCb :
             /\ ~last'.exitCb[i].has_code
             /\ last'.exitCb[i].code = 0 ]_vars

C9_Witness ==
  /\ last.ev = "RequestExit"
  /\ Len(last.exitCb) = 1
  /\ last.exitCb[1].has_code
  /\ last.exitCb[1].code = 7

C11_CloseInvokesCloseHandler ==
  [][ (/\ Consumed
       /\ Head(channel).kind = "Dispatch"
       /\ Head(channel).cb = "close"
       /\ Head(channel).target \in DOMAIN id_to_window_id
       /\ id_to_window_id[Head(channel).target] \in DOMAIN live_windows
       /\ live_windows[id_to_window_id[Head(channel).target]].close_handler) =>
         last'.closeCb # "none" ]_vars

C13_RequestExitDecidedByHandler ==
  [][ /\ (/\ Len(channel') > Len(channel)
          /\ channel'[Len(channel')].kind = "RequestExit") =>
           /\ channel' = Append(channel, channel'[Len(channel')])
           /\ UNCHANGED <<appVars, closureVars, last>>
      /\ (Consumed /\ Head(channel).kind = "RequestExit") =>
           /\ last'.ev = "RequestExit"
           /\ Len(last'.exitCb) = (IF exit_requested_handler THEN 1 ELSE 0)
           /\ UNCHANGED <<live_windows, id_to_window_id>>
           /\ IF exit_requested_handler /\ ~last'.exitCb[1].ret
              THEN /\ control_flow' = "Wait"
                   /\ UNCHANGED live_trays
              ELSE /\ control_flow' = "Exit"
                   /\ IsEmpty(live_trays') ]_vars

C13_Witness ==
  /\ last.ev = "RequestExit"
  /\ Len(last.exitCb) = 1
  /\ ~last.exitCb[1].ret
  /\ control_flow = "Wait"
  /\ ~IsEmpty(live_windows)
  /\ ~IsEmpty(live_trays)

\* C14: a send made after the loop has stopped (wry_app_exit,
\* wry_window_dispatch, wry_tray_dispatch, wry_tray_remove) queues nothing,
\* runs no handler and invokes no callback, and leaves the controller state
\* as it was.
C14_LateSendsAreNoOps ==
  [][ (Stopped /\ sends' # sends) =>
        UNCHANGED <<appVars, channel, closureVars, last>> ]_vars

C14_Witness ==
  /\ Stopped
  /\ hist.late > 0
  /\ exit_requested_handler
  /\ channel = <<>>

\* C15: a call of wry_app_run after the first one took the event loop
\* materializes nothing, invokes no callback and changes no state.
C15_SecondRunIsNoOp ==
  [][ hist'.reruns # hist.reruns =>
        /\ ~event_loop
        /\ UNCHANGED <<appVars, channel, closureVars, last, returned,
                       tray_returned, sends>> ]_vars

C15_Witness ==
  /\ hist.reruns > 0
  /\ ~run_started
  /\ ~IsEmpty(windows)
  /\ pending_windows # <<>>

\* C16: dispatch messages of one producer thread are handled in the order
\* that thread sent them: the messages of a producer waiting in the channel
\* are in send order, and the dispatch handled last was sent before every
\* message of its producer that still waits; messages of other producers and
\* OS events fall in between.
C16_PerProducerFifo ==
  /\ \A i, j \in DOMAIN channel :
       (i < j /\ channel[i].ctx[1] = channel[j].ctx[1]) =>
          channel[i].ctx[2] < channel[j].ctx[2]
  /\ last.ev \in {"Dispatch", "TrayDispatch"} =>
       \A i \in DOMAIN channel :
         channel[i].ctx[1] = last.delivery[1].ctx[1] =>
            last.delivery[1].ctx[2] < channel[i].ctx[2]

C16_Witness ==
  /\ last.ev = "Dispatch"
  /\ last.delivery[1].calls = <<last.delivery[1].ctx>>
  /\ channel # <<>>
  /\ Head(channel).ctx[1] = last.delivery[1].ctx[1]
  /\ Head(channel).ctx[2] = last.delivery[1].ctx[2] + 1

\* A closure invocation that materializes: the Init event, or a CreateWindow
\* message taken from the channel.
Materializing ==
  \/ ~run_started /\ run_started'
  \/ Consumed /\ Head(channel).kind = "CreateWindow"

\* C17: in the Init event and in every CreateWindow step, the window-created
\* callback (if registered before run) is called exactly once for each window
\* whose materialization succeeded in that step, with that window's handle
\* and with the record already reachable through the handle map and the live
\* map; it is not called for a window whose creation failed, and no other
\* step calls it.
C17_CreatedFiredOncePerSuccess ==
  [][ /\ Materializing =>
           LET new == DOMAIN id_to_window_id' \ DOMAIN id_to_window_id IN
             /\ last'.ev \in {"Init", "CreateWindow"}
             /\ IF window_created_handler'
                THEN /\ {last'.createdCb[i].handle : i \in DOMAIN last'.createdCb} = new
                     /\ Len(last'.createdCb) = Cardinality(new)
                     /\ \A i \in DOMAIN last'.createdCb : last'.createdCb[i].mapped
                ELSE last'.createdCb = <<>>
             /\ \A i \in DOMAIN last'.errorCb :
                  \A j \in DOMAIN last'.createdCb :
                    last'.errorCb[i] # last'.createdCb[j].handle
      /\ last'.ev \notin {"Init", "CreateWindow"} => last'.createdCb = <<>> ]_vars

C17_Witness ==
  /\ last.ev = "CreateWindow"
  /\ Len(last.createdCb) = 1
  /\ last.createdCb[1].handle = last.target
  /\ last.target \in DOMAIN id_to_window_id
  /\ \E h \in DOMAIN id_to_window_id : h # last.target

\* C18 as stated: the window-creation-error callback is never called in the
\* Init event; a failed creation it is called for never becomes live.
C18_ErrorOnlyOnDynamicPath ==
  /\ last.ev = "Init" => last.errorCb = <<>>
  /\ \A i \in DOMAIN last.errorCb : last.errorCb[i] \notin DOMAIN id_to_window_id

\* C19 as stated: a window created after run started was materialized with
\* the URL of every wry_window_load_url call made for its handle.
C19_QueuedConfigurationUsed ==
  \A w \in DOMAIN live_windows :
    <<live_windows[w].id, "url">> \in hist.calls =>
       live_windows[w].pending_url # None

\* C20 as stated: a record in the queued list holds the value of every
\* handle-keyed call made for its handle (URL, title, close callback).
C20_QueuedRecordMutated ==
  \A i \in DOMAIN dynamic_window_queue :
    LET r == dynamic_window_queue[i] IN
      /\ <<r.id, "url">> \in hist.calls => r.pending_url # None
      /\ <<r.id, "title">> \in hist.calls => r.pending_title # <<>>
      /\ <<r.id, "close">> \in hist.calls => r.close_handler

\* C20 amended: a record in the queued list holds the URL of every
\* wry_window_load_url call made for its handle (the calls that go through
\* with_queued_window: URL, HTML, init script, IPC handler, custom
\* protocol); the title and the close callback of a queued record stay as
\* WryWindow::new set them, whatever handle-keyed calls were made.
C20_QueuedRecordMutatedByQueuedSetters ==
  \A i \in DOMAIN dynamic_window_queue :
    LET r == dynamic_window_queue[i] IN
      /\ <<r.id, "url">> \in hist.calls => r.pending_url \in Urls
      /\ r.pending_title = <<>>
      /\ ~r.close_handler

C20_Witness ==
  \E i \in DOMAIN dynamic_window_queue :
    LET r == dynamic_window_queue[i] IN
      /\ {<<r.id, "url">>, <<r.id, "title">>, <<r.id, "close">>} \subseteq hist.calls
      /\ r.pending_url \in Urls
      /\ r.pending_title = <<>>

\* C21 as stated: a live window has the title of every wry_window_set_title
\* call made for its handle after the loop started (the record's title is
\* the one its OS window was built with; a call that reached the live window
\* would set both).
C21_LiveWindowConfigured ==
  \A w \in DOMAIN live_windows :
    <<live_windows[w].id, "title">> \in hist.calls =>
       Some(live_windows[w].pending_title) \in Titles

\* the handles of the records in a sequence of records
IdsOf(seq) == {seq[i].id : i \in DOMAIN seq}

\* C22: wry_app_run takes every tray created so far and the Init event makes
\* exactly those live; a tray created after wry_app_run was called stays in
\* app.trays: it is never pending or live in the loop, a dispatch to it calls
\* nothing, and a tray removal stops the loop on the live windows and live
\* trays alone.
C22_LateTraysNeverLive ==
  [][ /\ (event_loop /\ ~event_loop') => IdsOf(pending_trays') = Range(tray_returned)
      /\ (Entered /\ run_started') => DOMAIN live_trays' = IdsOf(pending_trays)
      /\ ~event_loop' =>
           \A t \in DOMAIN trays' :
             /\ t \notin DOMAIN live_trays' \cup IdsOf(pending_trays')
             /\ (Consumed /\ last'.ev = "TrayDispatch" /\ last'.delivery[1].target = t)
                   => last'.delivery[1].calls = <<>>
      /\ (Consumed /\ last'.ev = "TrayRemove") =>
           ((control_flow' = "Exit") <=> (IsEmpty(live_windows') /\ IsEmpty(live_trays'))) ]_vars

C22_Witness ==
  /\ ~event_loop
  /\ last.ev = "TrayDispatch"
  /\ last.delivery[1].target \in DOMAIN trays
  /\ last.delivery[1].calls = <<>>

\* the not yet materialized record of each handle that has one in app.windows
\* or in the queued list
Unbuilt(W, Q) ==
  [h \in DOMAIN W \cup IdsOf(Q) |->
     IF h \in DOMAIN W THEN W[h] ELSE CHOOSE r \in Range(Q) : r.id = h]

\* C23: a record of app.windows or of the queued list never has both a URL
\* and inline HTML; a step that sets its URL leaves its HTML absent, a step
\* that sets its HTML leaves its URL absent, and a field is cleared only by
\* setting the other one.
C23_UrlHtmlExclusive ==
  [][ LET old == Unbuilt(windows, dynamic_window_queue)
          new == Unbuilt(windows', dynamic_window_queue')
      IN \A h \in DOMAIN new :
           /\ new[h].pending_url = None \/ new[h].pending_html = None
           /\ h \in DOMAIN old =>
                /\ new[h].pending_url # old[h].pending_url =>
                     (new[h].pending_url = None) # (new[h].pending_html = None)
                /\ new[h].pending_html # old[h].pending_html =>
                     (new[h].pending_url = None) # (new[h].pending_html = None) ]_vars

C23_Witness ==
  /\ \E r \in Range(dynamic_window_queue) :
       /\ <<r.id, "html">> \in hist.calls
       /\ r.pending_url \in Urls
       /\ r.pending_html = None
  /\ \E h \in DOMAIN windows :
       windows[h].pending_html \in Htmls /\ windows[h].pending_url = None

\* every window record the program holds: app.windows, the queued list, the
\* loop's pending list and its live map
AllRecords(W, Q, P, L) ==
  {W[h] : h \in DOMAIN W} \cup Range(Q) \cup Range(P) \cup {L[w] : w \in DOMAIN L}

\* C24: no window record ever has both an owner and a parent; a step that
\* gives a pending record a new non-zero owner leaves it without parent, and
\* a step that gives it a new non-zero parent leaves it without owner.
C24_OwnerParentExclusive ==
  [][ /\ \A r \in AllRecords(windows', dynamic_window_queue', pending_windows', live_windows') :
           r.pending_owner_window_id = 0 \/ r.pending_parent_window_id = 0
      /\ \A h \in DOMAIN windows \cap DOMAIN windows' :
           /\ (windows'[h].pending_owner_window_id
                  \notin {0, windows[h].pending_owner_window_id})
                => windows'[h].pending_parent_window_id = 0
           /\ (windows'[h].pending_parent_window_id
                  \notin {0, windows[h].pending_parent_window_id})
                => windows'[h].pending_owner_window_id = 0 ]_vars

C24_Witness ==
  \E g, h \in DOMAIN windows :
    /\ windows[g].pending_owner_window_id # 0
    /\ windows[g].pending_parent_window_id = 0
    /\ windows[h].pending_parent_window_id # 0
    /\ windows[h].pending_owner_window_id = 0

\* C25 as stated: for bounds with left <= right and top <= bottom and a
\* window of non-negative size, clamp_window_position_to_bounds returns new_x
\* with left <= new_x and new_x + width <= right when width <= right - left,
\* and new_x = left when width > right - left; likewise new_y; bounds
\* (0, 0, 1920, 1080) and window (1900, 100) 100 x 100 give (1820, 100).
C25_ClampKeepsWindowInside ==
  \A c \in Range(last.clamp) :
    (c.left <= c.right /\ c.top <= c.bottom /\ c.win_w >= 0 /\ c.win_h >= 0) =>
       /\ ~c.panic
       /\ IF c.win_w <= c.right - c.left
          THEN c.left <= c.new_x /\ c.new_x + c.win_w <= c.right
          ELSE c.new_x = c.left
       /\ IF c.win_h <= c.bottom - c.top
          THEN c.top <= c.new_y /\ c.new_y + c.win_h <= c.bottom
          ELSE c.new_y = c.top
       /\ (<<c.left, c.top, c.right, c.bottom>> = <<0, 0, 1920, 1080>>
             /\ <<c.win_x, c.win_y, c.win_w, c.win_h>> = <<1900, 100, 100, 100>>)
            => <<c.new_x, c.new_y>> = <<1820, 100>>

\* C26: for a window that lies inside the bounds (left <= x, x + width <=
\* right, top <= y, y + height <= bottom, the exact fit included)
\* clamp_window_position_to_bounds returns (x, y) and apply_prevent_overflow
\* does not reposition the window.
C26_InsideIsUnchanged ==
  \A c \in Range(last.clamp) :
    (c.left <= c.win_x /\ c.win_x + c.win_w <= c.right
       /\ c.top <= c.win_y /\ c.win_y + c.win_h <= c.bottom) =>
       /\ ~c.panic
       /\ <<c.new_x, c.new_y>> = <<c.win_x, c.win_y>>
       /\ ~c.reposition

C26_Witness ==
  \E c \in Range(last.clamp) :
    /\ c.left <= c.win_x /\ c.win_x + c.win_w = c.right
    /\ c.top <= c.win_y /\ c.win_y + c.win_h = c.bottom
    /\ <<c.new_x, c.new_y>> = <<c.win_x, c.win_y>>
    /\ ~c.reposition

\* the string a C string argument stands for when it is valid text
ValidText == {Some(<<>>), Some(<<195, 169>>)}
Expected(c) == IF c \in ValidText THEN c ELSE Some(<<>>)

KnownHandles ==
  {r.id : r \in AllRecords(windows, dynamic_window_queue, pending_windows, live_windows)}
KnownTrays == DOMAIN trays \cup IdsOf(pending_trays) \cup DOMAIN live_trays

\* C28 as stated: a setter, a window dispatch or a tray dispatch for a handle
\* that belongs to no pending, queued or live record calls no callback,
\* creates and changes no record, and does not stop the loop.
C28_UnknownHandleIgnored ==
  [][ /\ (Consumed /\ last'.ev = "Dispatch" /\ last'.delivery[1].target \notin KnownHandles)
           => /\ last'.delivery[1].calls = <<>>
              /\ UNCHANGED <<windows, dynamic_window_queue, pending_windows,
                             live_windows, live_trays>>
              /\ control_flow' # "Exit"
      /\ (Consumed /\ last'.ev = "TrayDispatch" /\ last'.delivery[1].target \notin KnownTrays)
           => /\ last'.delivery[1].calls = <<>>
              /\ UNCHANGED <<windows, dynamic_window_queue, pending_windows,
                             live_windows, live_trays>>
              /\ control_flow' # "Exit"
      /\ \A h \in Handles \ KnownHandles :
           (\E u \in Urls : WindowLoadUrl(h, u))
             => UNCHANGED <<windows, dynamic_window_queue, closureVars, last>> ]_vars

\* the places that hold a record of handle h: entries of app.windows, of the
\* queued list, of the loop's pending list and of its live map
Holders(h, W, Q, P, L) ==
  {<<"windows", k>> : k \in {k \in DOMAIN W : W[k].id = h}}
    \cup {<<"queue", i>> : i \in {i \in DOMAIN Q : Q[i].id = h}}
    \cup {<<"pending", i>> : i \in {i \in DOMAIN P : P[i].id = h}}
    \cup {<<"live", w>> : w \in {w \in DOMAIN L : L[w].id = h}}

\* C29: at every step the record of each window handle is held in at most
\* one place (app.windows, the queued list, the loop's pending list, the live
\* map), it only moves forward (from app.windows to the pending list, from
\* the pending list or the queued list to the live map), and a returned
\* handle that is held nowhere (destroyed, or failed to create) is never held
\* again.
C29_OneLifecycleState ==
  [][ \A h \in Handles :
        LET old == Holders(h, windows, dynamic_window_queue, pending_windows, live_windows)
            new == Holders(h, windows', dynamic_window_queue', pending_windows', live_windows')
        IN /\ Cardinality(new) <= 1
           /\ (h \in Range(returned) /\ old = {}) => new = {}
           /\ \A o \in old, n \in new :
                <<o[1], n[1]>> \in {<<"windows", "windows">>, <<"windows", "pending">>,
                                    <<"pending", "pending">>, <<"pending", "live">>,
                                    <<"queue", "queue">>, <<"queue", "live">>,
                                    <<"live", "live">>} ]_vars

C29_Witness ==
  \E g, h, k \in Range(returned) :
    /\ Holders(g, windows, dynamic_window_queue, pending_windows, live_windows) = {}
    /\ \E w \in DOMAIN live_windows : live_windows[w].id = h
    /\ \E i \in DOMAIN dynamic_window_queue : dynamic_window_queue[i].id = k

\* C30 as stated: a record leaves the live map only with its window and
\* webview released, and a dispatched callback is only ever handed a record
\* whose window and webview are still there.
C30_NoDispatchToReleased ==
  [][ (Consumed /\ last'.ev = "Dispatch" /\ last'.delivery[1].calls # <<>>) =>
        LET h == last'.delivery[1].target
        IN /\ h \in DOMAIN id_to_window_id
           /\ id_to_window_id[h] \in DOMAIN live_windows
           /\ live_windows[id_to_window_id[h]].window ]_vars

\* the item identifiers of the menu tree of a tray record
TreeIds(tray) == IF tray.pending_menu = None THEN {} ELSE Build(tray.pending_menu[1])
Owners(id, T) == {t \in DOMAIN T : id \in TreeIds(T[t])}

\* C31 as stated: a tray menu event with identifier X calls only the
\* menu-event handler of a live tray whose menu tree contains X, once and with
\* X; it calls no handler when no live tray's menu contains X; and when the
\* tray whose menu was clicked is still live, and every live tray whose menu
\* contains X has a handler, exactly one of them is called.
C31_MenuClickRouted ==
  [][ (Consumed /\ last'.ev = "TrayMenuEvent") =>
        LET X == Head(channel).id
            d == last'.delivery[1]
            owners == Owners(X, live_trays)
        IN /\ d.calls # <<>> => (d.target \in owners /\ d.calls = <<X>>)
           /\ owners = {} => d.calls = <<>>
           /\ (/\ Head(channel).from \in owners
               /\ \A t \in owners : live_trays[t].menu_event_handler)
                => d.calls = <<X>> ]_vars

Max(S) == CHOOSE x \in S : \A y \in S : y <= x

\* C31, amended: the table built by the Init event holds, for every item or
\* check item identifier of a materialized tray's menu tree at any depth, the
\* tray materialized last among those whose tree contains it, and nothing
\* else; a tray menu event with identifier X calls the menu-event handler of
\* the tray the table holds for X, once and with X, when that tray is live
\* and has a handler, and calls no handler otherwise, also when another live
\* tray's menu contains X.
C31_MenuClickRoutedByTable ==
  [][ /\ (Entered /\ run_started') =>
           \A X \in MenuIds :
              LET at == {i \in DOMAIN pending_trays : X \in TreeIds(pending_trays[i])}
              IN IF at = {} THEN X \notin DOMAIN menu_id_to_tray'
                 ELSE /\ X \in DOMAIN menu_id_to_tray'
                      /\ menu_id_to_tray'[X] = pending_trays[Max(at)].id
      /\ (Consumed /\ last'.ev = "TrayMenuEvent") =>
           LET X == Head(channel).id
               d == last'.delivery[1]
           IN IF /\ X \in DOMAIN menu_id_to_tray
                 /\ menu_id_to_tray[X] \in DOMAIN live_trays
                 /\ live_trays[menu_id_to_tray[X]].menu_event_handler
              THEN /\ d.calls = <<X>>
                   /\ d.target = menu_id_to_tray[X]
                   /\ d.target \in Owners(X, live_trays)
              ELSE d.calls = <<>> ]_vars

\* an event for an identifier that two live trays share was delivered to one
\* of them
C31_Witness ==
  /\ last.ev = "TrayMenuEvent"
  /\ last.delivery[1].calls # <<>>
  /\ \E X \in MenuIds :
        /\ last.delivery[1].calls = <<X>>
        /\ Cardinality(Owners(X, live_trays)) = 2
        /\ last.target \in Owners(X, live_trays)

\* the identifiers of the menu the tray icon of a record shows
ShownIds(tray) == IF tray.tray = None THEN {} ELSE Build(tray.tray[1])
\* no live tray other than t has identifier id in its menu tree or shown menu
Unshared(id, t, T) ==
  \A u \in DOMAIN T \ {t} : id \notin TreeIds(T[u]) \cup ShownIds(T[u])

\* C32 as stated: once a live tray's menu was replaced, an event for an
\* identifier no other tray uses is delivered to the handler of the tray whose
\* menu was clicked exactly when the menu that tray shows now contains the
\* identifier; and a menu replacement leaves the routing entries of the other
\* trays as they were.
C32_ReplacedMenuRouted ==
  [][ /\ (Consumed /\ last'.ev = "TrayMenuEvent") =>
           LET X == Head(channel).id
               t == Head(channel).from
               d == last'.delivery[1]
           IN (/\ t \in DOMAIN live_trays
               /\ live_trays[t].menu_event_handler
               /\ Unshared(X, t, live_trays))
                => IF X \in ShownIds(live_trays[t])
                   THEN d.calls = <<X>> /\ d.target = t
                   ELSE d.calls = <<>>
      /\ (Consumed /\ last'.ev = "TrayDispatch") =>
           \A X \in DOMAIN menu_id_to_tray :
              menu_id_to_tray[X] # last'.target =>
                 /\ X \in DOMAIN menu_id_to_tray'
                 /\ menu_id_to_tray'[X] = menu_id_to_tray[X] ]_vars

\* C33 as stated: wry_window_center on a window that is not live leaves the
\* record as it was, a position set with wry_window_set_position included.
C33_CenterIsNoOp ==
  [][ (\E h \in Handles : WindowCenter(h)) => windows' = windows ]_vars

\* C34 as stated: with wry_window_new called from several threads at once, no
\* handle is returned twice, and no two records of the queued list or of the
\* live map have the same handle.
C34_ConcurrentHandlesUnique ==
  /\ \A i, j \in DOMAIN returned : returned[i] = returned[j] => i = j
  /\ \A i, j \in DOMAIN dynamic_window_queue :
        dynamic_window_queue[i].id = dynamic_window_queue[j].id => i = j
  /\ \A v, w \in DOMAIN live_windows :
        live_windows[v].id = live_windows[w].id => v = w

\* C35 as stated: a CreateWindow message handled with a non-empty queued list
\* materializes exactly one queued record, the one created first (lowest
\* handle); and a record that names as owner a window created earlier while
\* the loop runs is built with that owner.
C35_DynamicCreationOrder ==
  [][ (Consumed /\ last'.ev = "CreateWindow" /\ dynamic_window_queue # <<>>) =>
        LET h == last'.target
            queued == IdsOf(dynamic_window_queue)
        IN /\ Len(dynamic_window_queue') = Len(dynamic_window_queue) - 1
           /\ LiveHandles(live_windows') = LiveHandles(live_windows) \cup {h}
           /\ h = Min(queued)
           /\ \A w \in DOMAIN live_windows' \ DOMAIN live_windows :
                LET o == live_windows'[w].pending_owner_window_id
                IN (o # 0 /\ o \in queued \cup LiveHandles(live_windows))
                     => live_windows'[w].built = [kind |-> "owner", of |-> o] ]_vars

\* the handles whose record waits in the pre-run map, the drained list or the
\* queued list
Waiting == DOMAIN windows \cup IdsOf(pending_windows) \cup IdsOf(dynamic_window_queue)

\* C36 as stated: every record created by wry_window_new, whenever it is
\* called, eventually leaves the pre-run map and the queued list (it is
\* materialized or dropped with a creation failure).
C36_NoRecordLost ==
  \A h \in LoopHandles : (h \in Waiting) ~> (h \notin Waiting)

\* C37 as stated: between event-handler invocations every record of the live
\* map holds its OS window and webview.
C37_LiveRecordsHoldWindows ==
  \A w \in DOMAIN live_windows : live_windows[w].window

\* a step of the loop's closure
HandlerStep == Consumed \/ last' # last \/ (Entered /\ run_started')

\* C38: the Init event never stops the loop and never calls the
\* exit-requested handler, whether or not a window is live after it; the
\* handler is called only by a step that removed a window or handled a
\* RequestExit message; the loop stops only in such a step or in a TrayRemove
\* step; and with no live window every other step leaves the loop waiting.
C38_NoExitCheckAtInit ==
  [][ /\ (Entered /\ run_started') =>
           (control_flow' = "Wait" /\ last'.exitCb = <<>>)
      /\ (HandlerStep /\ last'.exitCb # <<>>) =>
           (last'.removed # {} \/ last'.ev = "RequestExit")
      /\ (~Stopped /\ control_flow' = "Exit") =>
           (last'.removed # {} \/ last'.ev \in {"RequestExit", "TrayRemove"})
      /\ (Running /\ IsEmpty(live_windows) /\ HandlerStep
            /\ last'.ev \notin {"RequestExit", "TrayRemove"}) =>
           (control_flow' = "Wait" /\ last'.exitCb = <<>>) ]_vars

\* the loop waits after an Init event in which every configured window failed
\* to be created and no tray exists, with an exit-requested handler registered
C38_Witness ==
  /\ Running
  /\ last.ev = "Init"
  /\ returned # <<>>
  /\ IsEmpty(live_windows)
  /\ IsEmpty(live_trays)
  /\ exit_requested_handler
  /\ control_flow = "Wait"

\* C39 as stated: for all inputs, inverted bounds and windows larger than the
\* bounds included, the upper limits max(right - width, left) and
\* max(bottom - height, top) are at least left and top, and
\* clamp_window_position_to_bounds returns a position with new_x >= left and
\* new_y >= top.
C39_ClampAlwaysReturns ==
  \A c \in Range(last.clamp) :
    /\ MaxPosition(c.right, c.win_w, c.left) >= c.left
    /\ MaxPosition(c.bottom, c.win_h, c.top) >= c.top
    /\ ~c.panic
    /\ c.new_x >= c.left
    /\ c.new_y >= c.top

\* C40 as stated: id_to_window_id and live_windows describe the same windows:
\* every entry h -> wid leads to a live record with handle h under wid, and
\* every live record has such an entry.
C40_MapsConsistent ==
  /\ \A h \in DOMAIN id_to_window_id :
        /\ id_to_window_id[h] \in DOMAIN live_windows
        /\ live_windows[id_to_window_id[h]].id = h
  /\ \A w \in DOMAIN live_windows :
        /\ live_windows[w].id \in DOMAIN id_to_window_id
        /\ id_to_window_id[live_windows[w].id] = w
====
